---- MODULE Spec2Model ----
(***************************************************************************)
(* Model of the market-collector streaming ingestion core:                 *)
(*   - the frame normalizer (_find_messages, _parse_payload),              *)
(*   - the live quote cache (VNScraper.cache, VNScraper._on_ws_frame),     *)
(*   - the market hours gate (is_market_open_at),                          *)
(*   - the snapshot cycle (VNScraper._take_snapshot) run by the interval   *)
(*     timer and by the control endpoint control_vn_snapshot,              *)
(*   - the two storage tables the cycle writes (index_prices,              *)
(*     index_metadata) with their uniqueness constraints.                  *)
(*   - the group fetchers: fetch_group_auto with its browser fallback      *)
(*     fetch_group_via_playwright, and the batch caller fetch_groups.main. *)
(*                                                                         *)
(* Spec is the scraper; SpecGate and SpecParse call the gate and the       *)
(* normalizer on bounded sets of arguments; SpecFetch and SpecBatch are    *)
(* the group fetchers.                                                     *)
(*                                                                         *)
(* Floats are modelled by integers.  Instants are minutes since Monday     *)
(* 00:00 UTC of one week.  Python's None for an optional float is the      *)
(* empty tuple <<>> and a present value v is <<v>>.                        *)
(***************************************************************************)
EXTENDS Integers, Sequences, FiniteSets, TLC

(***************************************************************************)
(* Bounds of the model.                                                    *)
(***************************************************************************)
MaxFrames == 2
MaxCycles == 2
MaxFaults == 1

(***************************************************************************)
(* JSON values as json.loads returns them.                                 *)
(***************************************************************************)
JNull == [t |-> "null"]
JNum(n) == [t |-> "num", n |-> n]
JStr(s) == [t |-> "str", s |-> s]
JBool(b) == [t |-> "bool", b |-> b]
JArr(items) == [t |-> "arr", items |-> items]
\* kv is the sequence of <<key, value>> pairs in document order
JObj(kv) == [t |-> "obj", kv |-> kv]

None == <<>>
Some(v) == <<v>>

\* Python truth value of a decoded JSON value
Truthy(v) ==
    CASE v.t = "null" -> FALSE
      [] v.t = "bool" -> v.b
      [] v.t = "num" -> v.n # 0
      [] v.t = "str" -> v.s # ""
      [] v.t = "arr" -> Len(v.items) > 0
      [] v.t = "obj" -> Len(v.kv) > 0

\* dict.get(key): the value under key, or None (JNull) when the key is absent
DictGet(d, key) ==
    IF \E i \in 1..Len(d.kv) : d.kv[i][1] = key
    THEN d.kv[CHOOSE i \in 1..Len(d.kv) : d.kv[i][1] = key][2]
    ELSE JNull

\* key in d
HasKey(d, key) == \E i \in 1..Len(d.kv) : d.kv[i][1] = key

\* Python "a or b": a when a is truthy, else b
PyOr(a, b) == IF Truthy(a) THEN a ELSE b

\* The strings float() accepts, with their values
NumericStrings == {"0", "7"}
FloatOfStr(s) == IF s = "0" THEN 0 ELSE 7

\* float(v) raises ValueError/TypeError exactly when CanFloat(v) is FALSE
CanFloat(v) ==
    \/ v.t = "num"
    \/ v.t = "bool"
    \/ v.t = "str" /\ v.s \in NumericStrings

FloatOf(v) ==
    CASE v.t = "num" -> v.n
      [] v.t = "bool" -> IF v.b THEN 1 ELSE 0
      [] v.t = "str" -> FloatOfStr(v.s)

\* str(code) for the truthy values a code alias can hold
StrOf(v) ==
    CASE v.t = "str" -> v.s
      [] v.t = "num" -> ToString(v.n)
      [] v.t = "bool" -> "True"
      [] v.t = "arr" -> "[...]"
      [] v.t = "obj" -> "{...}"

RECURSIVE _find_messages(_)
RECURSIVE FindInSeq(_)
\* the dicts of a payload in pre-order
_find_messages(obj) ==
    CASE obj.t = "obj" ->
            <<obj>> \o FindInSeq([i \in 1..Len(obj.kv) |-> obj.kv[i][2]])
      [] obj.t = "arr" -> FindInSeq(obj.items)
      [] OTHER -> <<>>
FindInSeq(vals) ==
    IF vals = <<>> THEN <<>>
    ELSE _find_messages(Head(vals)) \o FindInSeq(Tail(vals))

(***************************************************************************)
(* Frame payload texts.  kind "json": the text is the JSON encoding of     *)
(* doc; kind "quoted": the text is that encoding of an object or array     *)
(* that holds a string, between two literal quote characters, nothing      *)
(* escaped (not JSON: the first inner quote ends the string); kind         *)
(* "encoded": the text is the JSON encoding of the string that holds the   *)
(* encoding of doc, inner quotes escaped; kind "garbage": the text is not  *)
(* JSON, with or without surrounding quotes.                               *)
(***************************************************************************)
TextJson(doc) == [kind |-> "json", doc |-> doc]
TextQuoted(doc) == [kind |-> "quoted", doc |-> doc]
TextEncoded(doc) == [kind |-> "encoded", doc |-> doc]
TextGarbage == [kind |-> "garbage", doc |-> JNull]

\* the str json.loads returns for an encoded text: the encoding of doc
EncodingOf(doc) == JStr("<json text>")

\* json.loads(payload): ok is FALSE when it raises
json_loads(payload) ==
    CASE payload.kind = "json" -> [ok |-> TRUE, data |-> payload.doc]
      [] payload.kind = "encoded" -> [ok |-> TRUE, data |-> EncodingOf(payload.doc)]
      [] OTHER -> [ok |-> FALSE, data |-> JNull]

\* payload.strip('"')
strip_quotes(payload) ==
    CASE payload.kind = "quoted" -> TextJson(payload.doc)
      [] payload.kind = "encoded" -> TextGarbage
      [] OTHER -> payload

\* lines 46-50: the alias lookups of one candidate dict
AliasCode(d) == PyOr(DictGet(d, "code"), PyOr(DictGet(d, "symbol"), DictGet(d, "indexCode")))
AliasPrice(d) == PyOr(DictGet(d, "last"), PyOr(DictGet(d, "lastPrice"), DictGet(d, "price")))
AliasChange(d) == PyOr(DictGet(d, "change"), DictGet(d, "chg"))
AliasPct(d) == PyOr(DictGet(d, "percent"), PyOr(DictGet(d, "percentChange"), DictGet(d, "chgPercent")))
AliasTs(d) == PyOr(DictGet(d, "time"), PyOr(DictGet(d, "timestamp"), DictGet(d, "t")))

\* line 51: the candidate is considered at all
IsCandidate(d) == Truthy(AliasCode(d)) /\ AliasPrice(d).t # "null"

\* lines 52-55: the candidate is skipped (continue) on a price that float() rejects
PriceSkipped(d) == IsCandidate(d) /\ ~CanFloat(AliasPrice(d))

\* lines 59-60: float(change) / float(pct) are outside the try and raise
EntryRaises(d) ==
    /\ IsCandidate(d) /\ CanFloat(AliasPrice(d))
    /\ \/ AliasChange(d).t # "null" /\ ~CanFloat(AliasChange(d))
       \/ AliasPct(d).t # "null" /\ ~CanFloat(AliasPct(d))

OptFloat(v) == IF v.t = "null" THEN None ELSE Some(FloatOf(v))

\* lines 56-62
EntryOf(d) ==
    [code |-> StrOf(AliasCode(d)),
     price |-> FloatOf(AliasPrice(d)),
     change |-> OptFloat(AliasChange(d)),
     change_percent |-> OptFloat(AliasPct(d)),
     ts |-> AliasTs(d)]

RECURSIVE ParseLoop(_, _)
\* lines 43-64: the loop over the candidates; raised when a float() outside
\* the try raises
ParseLoop(ds, found) ==
    IF ds = <<>> THEN [raised |-> FALSE, found |-> found]
    ELSE LET d == Head(ds) IN
         IF ~IsCandidate(d) \/ PriceSkipped(d) THEN ParseLoop(Tail(ds), found)
         ELSE IF EntryRaises(d) THEN [raised |-> TRUE, found |-> <<>>]
         ELSE ParseLoop(Tail(ds), Append(found, EntryOf(d)))

_parse_payload(payload) ==
    LET first == json_loads(payload)
        second == json_loads(strip_quotes(payload))
    IN IF first.ok THEN ParseLoop(_find_messages(first.data), <<>>)
       ELSE IF second.ok THEN ParseLoop(_find_messages(second.data), <<>>)
       ELSE [raised |-> FALSE, found |-> <<>>]

(***************************************************************************)
(* Market hours gate.  A datetime is its wall-clock weekday (0 = Monday)   *)
(* and minute of day, with the UTC offset of its tzinfo when it is aware.  *)
(* A timezone is its UTC offset in minutes.                                *)
(***************************************************************************)
MinutesPerDay == 24 * 60
MinutesPerWeek == 7 * MinutesPerDay

\* MARKET_TZ = "Asia/Ho_Chi_Minh", UTC+07:00 all year
MARKET_TZ == 7 * 60

Naive(wd, min) == [aware |-> FALSE, off |-> 0, wd |-> wd, min |-> min]
Aware(off, wd, min) == [aware |-> TRUE, off |-> off, wd |-> wd, min |-> min]

\* a naive value taken as UTC and converted to tz
localize_as_utc(now, tz) ==
    LET abs == (now.wd * MinutesPerDay + now.min + tz) % MinutesPerWeek
    IN Aware(tz, abs \div MinutesPerDay, abs % MinutesPerDay)

\* tz.localize(now): the wall-clock fields are kept
localize(now, tz) == Aware(tz, now.wd, now.min)

\* now.astimezone(tz): the same absolute instant, wall-clock fields in tz
astimezone(now, tz) ==
    LET abs == (now.wd * MinutesPerDay + now.min - now.off + tz) % MinutesPerWeek
    IN Aware(tz, abs \div MinutesPerDay, abs % MinutesPerDay)

morning_start == 9 * 60
morning_end == 11 * 60 + 30
afternoon_start == 13 * 60
afternoon_end == 15 * 60

\* windows that exclude their closing minute
is_market_open_at_half_open(now, tz) ==
    LET loc == IF ~now.aware THEN localize(now, tz) ELSE astimezone(now, tz)
        cur == loc.min
    IN IF loc.wd >= 5 THEN FALSE
       ELSE (morning_start <= cur /\ cur < morning_end)
            \/ (afternoon_start <= cur /\ cur < afternoon_end)

is_market_open_at(now, tz) ==
    LET loc == IF ~now.aware THEN localize(now, tz) ELSE astimezone(now, tz)
        cur == loc.min
    IN IF loc.wd >= 5 THEN FALSE
       ELSE (morning_start <= cur /\ cur <= morning_end)
            \/ (afternoon_start <= cur /\ cur <= afternoon_end)

\* datetime.utcnow() at instant c: the naive UTC wall clock
utcnow(c) == Naive((c \div MinutesPerDay) % 7, c % MinutesPerDay)

\* the instant c as an aware UTC datetime
InstantUTC(c) == Aware(0, (c \div MinutesPerDay) % 7, c % MinutesPerDay)

\* the target market is open at instant c
MarketOpenAt(c) == is_market_open_at(InstantUTC(c), MARKET_TZ)


(***************************************************************************)
(* State.                                                                  *)
(***************************************************************************)
VARIABLES
    cache,          \* VNScraper.cache: entries in key insertion order (a dict)
    frames,         \* history: the payloads of the frames received so far
    clock,          \* the wall clock: the last instant that was read
    faults,         \* number of storage calls of the running cycle that failed
                    \* with another error than IntegrityError
    DRY_RUN,        \* config.DRY_RUN, read once at import
    index_prices,   \* table index_prices (committed rows)
    index_metadata, \* table index_metadata (committed rows)
    utils_is_market_open_at, \* attribute is_market_open_at of module utils
    pc,             \* position of each executor of _take_snapshot
    now,            \* local now of the cycle (the instant utcnow() returned)
    rows,           \* local rows of the cycle
    metadata_to_upsert, \* local metadata_to_upsert of the cycle
    session,        \* state of the cycle's SQLAlchemy session
    pending,        \* IndexMetadata objects added to the session, not flushed
    existing,       \* local existing of the cycle (dedup pre-query result)
    idx,            \* position of the row-by-row retry loop in rows
    force,          \* parameter force of control_vn_snapshot
    orig,           \* local orig of control_vn_snapshot
    written,        \* history: ids of the price rows the running cycle inserted
    fault,          \* history: first failure of the running cycle that is
                    \* not a uniqueness violation
    path,           \* history: how far the running cycle went: "empty",
                    \* "closed", "dry", "bulk", or "retry" once the retry
                    \* loop has started
    cause,          \* history: the commit whose IntegrityError started the retry
    overlap,        \* history: another cycle ran while this one was running
    base,           \* history: number of finished cycles when this one started
    seen,           \* history: number of frames received when rows was built
    done,           \* history: number of finished cycles
    prev,           \* history: the record of the last finished cycle
    gate_now,       \* argument now of a call of is_market_open_at
    gate_tz,        \* argument tz_str of the call (the offset of the zone)
    gate_open,      \* what the call returned, None before it has
    parse_payload,  \* argument payload of a call of _parse_payload
    parse_result,   \* outcome of the call, None before it has ended: the
                    \* list it returned, or raised
    fa_pc,          \* position of the caller in fetch_group_auto
    fa_calls,       \* history: number of calls of fetch_group_auto
    fa_direct,      \* history: how http_fetch ended in the current call
    fa_fallbacks,   \* history: calls of fetch_group_via_playwright made by
                    \* the current call of fetch_group_auto
    fa_result,      \* how the current call of fetch_group_auto ended
    pw_pc,          \* position in fetch_group_via_playwright
    pw_driver,      \* the Playwright driver of sync_playwright() is running
    pw_browser,     \* the browser of pw.chromium.launch is open
    pw_launches,    \* history: browsers launched by the current call
    pw_result,      \* local result of fetch_group_via_playwright (a dict)
    pw_responses,   \* history: responses the page has received
    pw_elapsed,     \* time.time() - start, in sleeps of the polling loop
    pw_exc,         \* an exception is propagating out of the with block
    pw_return,      \* how fetch_group_via_playwright ended
    index_constituents, \* table index_constituents (committed rows)
    bm_pc,          \* position in fetch_groups.main
    bm_argv,        \* argument argv of fetch_groups.main
    bm_groups,      \* local groups of fetch_groups.main
    bm_g,           \* position of the loop of fetch_groups.main in groups
    bm_payload,     \* local payload of fetch_groups.main
    bm_log,         \* history: the groups attempted, with how the fetch and
                    \* the save of each ended
    mw_pc,          \* metadata writers: where each is in its check-then-insert
    mw_args,        \* the codes, symbols or group its call was given
    mw_pending,     \* the IndexMetadata objects added to its session
    mw_calls,       \* number of calls of the writers so far
    SCRAPER_INSTANCE,   \* module global: 0 is None, else the number of the
                        \* VNScraper it refers to
    SCRAPER_READY,      \* module global
    scrapers,       \* the VNScraper objects constructed so far, in order: the
                    \* scheduler, the browser, the state of the snapshot job
    lf_pc,          \* where each thread of the lifecycle is in its function
    lf_inst,        \* local inst of control_vn_snapshot, self of stop
    lf_force,       \* argument force of each running control_vn_snapshot
    lf_orig,        \* local orig of each running control_vn_snapshot
    lf_seconds,     \* argument seconds of the last set_snapshot_interval
    lf_last,        \* history: the thread of the last control call
    lf_ret,         \* the value the last call of each thread returned
    lf_ops,         \* number of control calls so far
    lf_cycles       \* number of snapshot cycles started so far

vars == <<cache, frames, clock, faults, DRY_RUN, index_prices, index_metadata,
          utils_is_market_open_at, pc, now, rows, metadata_to_upsert, session,
          pending, existing, idx, force, orig, written, fault, path, cause,
          overlap, base, seen, done, prev, gate_now, gate_tz, gate_open,
          parse_payload, parse_result, fa_pc, fa_calls, fa_direct,
          fa_fallbacks, fa_result, pw_pc, pw_driver, pw_browser, pw_launches,
          pw_result, pw_responses, pw_elapsed, pw_exc, pw_return,
          index_constituents, bm_pc, bm_argv, bm_groups, bm_g, bm_payload,
          bm_log, mw_pc, mw_args, mw_pending, mw_calls, SCRAPER_INSTANCE,
          SCRAPER_READY, scrapers, lf_pc, lf_inst, lf_force, lf_orig,
          lf_seconds, lf_last, lf_ret, lf_ops, lf_cycles>>

\* the executors of _take_snapshot: the APScheduler job thread and the
\* request thread of control_vn_snapshot
Procs == {"timer", "api"}

\* first instant of a run: Monday 06:00 UTC, 13:00 in the market zone
StartClocks == {6 * 60}
\* clock advance between two readings of the clock: to Monday 09:30 UTC
\* (16:30 in the market zone), then 13:00 UTC (20:00), then 16:30 UTC (23:30)
ClockSteps == {3 * 60 + 30}

(***************************************************************************)
(* Frames the page's websocket delivers in this model.                     *)
(***************************************************************************)
PayloadSimple ==
    TextJson(JObj(<< <<"symbol", JStr("VNINDEX")>>, <<"last", JNum(10)>>,
                     <<"change", JNum(1)>>, <<"percent", JNum(2)>> >>))
PayloadNested ==
    TextJson(JObj(<< <<"data", JObj(<< <<"items", JArr(<<
        JObj(<< <<"symbol", JStr("VN30")>>, <<"lastPrice", JNum(20)>> >>),
        JObj(<< <<"code", JStr("VNINDEX")>>, <<"price", JNum(11)>> >>),
        JObj(<< <<"code", JStr("VNINDEX")>>, <<"last", JStr("n/a")>> >>) >>)>> >>)>> >>))
PayloadQuoted ==
    TextQuoted(JArr(<<
        JObj(<< <<"code", JStr("VN30")>>, <<"last", JNum(21)>> >>),
        JObj(<< <<"code", JStr("VN30")>>, <<"last", JNum(22)>>,
                <<"chg", JStr("7")>> >>) >>))
PayloadBadChange ==
    TextJson(JArr(<<
        JObj(<< <<"code", JStr("VN30")>>, <<"last", JNum(23)>> >>),
        JObj(<< <<"code", JStr("VNINDEX")>>, <<"last", JNum(12)>>,
                <<"change", JStr("n/a")>> >>) >>))
Payloads == {PayloadSimple, PayloadNested, PayloadBadChange}
\* a frame that is no JSON text, with or without its quotes
PayloadMalformed == TextGarbage

(***************************************************************************)
(* The cache, a dict: lookups by code, insertion order of the keys.        *)
(***************************************************************************)
CacheHas(c, code) == \E k \in 1..Len(c) : c[k].code = code
CacheGet(c, code) == c[CHOOSE k \in 1..Len(c) : c[k].code = code]

\* a cache that keeps the first record of a code
CachePutIfAbsent(c, entry) ==
    IF CacheHas(c, entry.code) THEN c ELSE Append(c, entry)

\* self.cache[entry["code"]] = entry
CachePut(c, entry) ==
    IF CacheHas(c, entry.code)
    THEN [k \in 1..Len(c) |-> IF c[k].code = entry.code THEN entry ELSE c[k]]
    ELSE Append(c, entry)

(***************************************************************************)
(* Storage: the two tables and their uniqueness constraints.  A table is   *)
(* a set of [id, row], id being the primary key column.                    *)
(***************************************************************************)
PairOf(row) == <<row.index_code, row.timestamp>>
StoredPairs == {PairOf(r.row) : r \in index_prices}

\* the table without the constraint
u_index_time_absent(table, row) == TRUE

\* UniqueConstraint("index_code", "timestamp", name="u_index_time"):
\* the table accepts row
u_index_time(table, row) == \A r \in table : PairOf(r.row) # PairOf(row)

\* the table without the constraint on code
u_index_metadata_code_absent(table, row) == TRUE

\* IndexMetadata.code unique=True: the table accepts row
u_index_metadata_code(table, row) == \A r \in table : r.row.code # row.code

\* INSERT of the rows rs (a sequence), each with the next id
InsertAll(table, rs) ==
    table \cup {[id |-> Cardinality(table) + k, row |-> rs[k]] : k \in 1..Len(rs)}

\* ids the table gives to n more rows
NextIds(table, n) == {Cardinality(table) + k : k \in 1..n}

(***************************************************************************)
(* Initial state: a started scraper with an empty cache, empty tables.     *)
(***************************************************************************)
\* the value of prev before the first cycle has finished
NoCycle ==
    [path |-> "none", now |-> 0, rows |-> <<>>, seen |-> 0, inserted |-> 0,
     dups |-> 0]

ScraperInit ==
    /\ cache = <<>>
    /\ frames = <<>>
    /\ clock \in StartClocks
    /\ faults = [p \in Procs |-> 0]
    /\ DRY_RUN \in BOOLEAN
    /\ index_prices = {}
    /\ index_metadata = {}
    /\ utils_is_market_open_at = "is_market_open_at"
    /\ pc = [p \in Procs |-> "idle"]
    /\ now = [p \in Procs |-> 0]
    /\ rows = [p \in Procs |-> <<>>]
    /\ metadata_to_upsert = [p \in Procs |-> <<>>]
    /\ session = [p \in Procs |-> "closed"]
    /\ pending = [p \in Procs |-> <<>>]
    /\ existing = [p \in Procs |-> {}]
    /\ idx = [p \in Procs |-> 0]
    /\ force = FALSE
    /\ orig = "is_market_open_at"
    /\ written = [p \in Procs |-> {}]
    /\ fault = [p \in Procs |-> "none"]
    /\ path = [p \in Procs |-> "none"]
    /\ cause = [p \in Procs |-> "none"]
    /\ overlap = [p \in Procs |-> FALSE]
    /\ base = [p \in Procs |-> 0]
    /\ seen = [p \in Procs |-> 0]
    /\ done = 0
    /\ prev = NoCycle

\* is_market_open_at has not been called
GateUnset ==
    /\ gate_now = Naive(0, 0)
    /\ gate_tz = MARKET_TZ
    /\ gate_open = None

\* _parse_payload has not been called outside the scraper
ParserUnset ==
    /\ parse_payload = TextGarbage
    /\ parse_result = None

\* outcomes of a call: still running, returned value, raised
NotReturned == [kind |-> "pending"]
Return(value) == [kind |-> "returned", value |-> value]
Raised == [kind |-> "raised"]

\* no fetch of a group has been asked for
FetchIdle ==
    /\ fa_pc = "idle"
    /\ fa_calls = 0
    /\ fa_direct = NotReturned
    /\ fa_fallbacks = 0
    /\ fa_result = NotReturned
    /\ pw_pc = "idle"
    /\ pw_driver = FALSE
    /\ pw_browser = FALSE
    /\ pw_launches = 0
    /\ pw_result = JObj(<<>>)
    /\ pw_responses = 0
    /\ pw_elapsed = 0
    /\ pw_exc = FALSE
    /\ pw_return = NotReturned

\* fetch_groups.main has not been called
BatchIdle ==
    /\ index_constituents = {}
    /\ bm_pc = "idle"
    /\ bm_argv = <<>>
    /\ bm_groups = <<>>
    /\ bm_g = 0
    /\ bm_payload = JNull
    /\ bm_log = <<>>

\* the threads and processes that write table index_metadata
Writers == {"snapshot", "quotes", "group"}

\* no writer of this part is running
MetaIdle ==
    /\ mw_pc = [w \in Writers |-> "idle"]
    /\ mw_args = [w \in Writers |-> <<>>]
    /\ mw_pending = [w \in Writers |-> <<>>]
    /\ mw_calls = 0


(***************************************************************************)
(* The scraper's lifecycle: the module globals, the VNScraper objects and  *)
(* the threads that start, stop, reschedule and trigger them.              *)
(***************************************************************************)
SNAPSHOT_INTERVAL == 15

\* the threads of the server's pool that run control_vn_snapshot (the
\* endpoint is a plain def, so two requests run in two threads)
Requests == {"snapshot", "snapshot2"}

\* the bootstrap thread and the threads of the control endpoints, one
\* running call of each
LifeThreads == {"boot", "start", "stop", "interval"} \cup Requests

\* an APScheduler interval job
Job(id, seconds) == [id |-> id, seconds |-> seconds]

\* VNScraper(): a BackgroundScheduler that is not started, a browser that is
\* not started.  Field stopped is history: stop() has been called.
NewScraper ==
    [sched |-> "new", jobs |-> {}, pending |-> <<>>, page |-> FALSE,
     timer |-> "idle", stopped |-> FALSE]

\* the module after import (lines 67-68), no control call running
LifeIdle ==
    /\ SCRAPER_INSTANCE = 0
    /\ SCRAPER_READY = FALSE
    /\ scrapers = <<>>
    /\ lf_pc = [t \in LifeThreads |-> "idle"]
    /\ lf_inst = [t \in LifeThreads |-> 0]
    /\ lf_force = [t \in Requests |-> FALSE]
    /\ lf_orig = [t \in Requests |-> "is_market_open_at"]
    /\ lf_seconds = 0
    /\ lf_last = "none"
    /\ lf_ret = [t \in LifeThreads |-> None]
    /\ lf_ops = 0
    /\ lf_cycles = 0

\* the module after start_scraper() has returned: one VNScraper, its page
\* open, its two jobs registered, its scheduler running
LifeStarted ==
    /\ SCRAPER_INSTANCE = 1
    /\ SCRAPER_READY = TRUE
    /\ scrapers = << [NewScraper EXCEPT
                        !.sched = "running", !.page = TRUE,
                        !.jobs = {Job("snapshot", SNAPSHOT_INTERVAL),
                                  Job("analysis_news", 2 * 3600)}] >>
    /\ lf_pc = [t \in LifeThreads |-> "idle"]
    /\ lf_inst = [t \in LifeThreads |-> 0]
    /\ lf_force = [t \in Requests |-> FALSE]
    /\ lf_orig = [t \in Requests |-> "is_market_open_at"]
    /\ lf_seconds = 0
    /\ lf_last = "none"
    /\ lf_ret = [t \in LifeThreads |-> None]
    /\ lf_ops = 0
    /\ lf_cycles = 0

Init ==
    /\ ScraperInit
    /\ GateUnset
    /\ ParserUnset
    /\ FetchIdle
    /\ BatchIdle
    /\ MetaIdle
    /\ LifeStarted

(***************************************************************************)
(* VNScraper._on_ws_frame under _attach_ws._on_frame.                      *)
(***************************************************************************)
\* _parse_payload(payload) for each frame of the model, computed once
ParsedFrames ==
    [payload \in Payloads \cup {PayloadMalformed} |-> _parse_payload(payload)]

RECURSIVE PutAll(_, _)
\* the loop of lines 79-81
PutAll(c, entries) ==
    IF entries = <<>> THEN c
    ELSE PutAll(CachePut(c, Head(entries)), Tail(entries))

\* a handler that loses the cache on an error
OnWsFrameDropsCache(payload) ==
    /\ Len(frames) < MaxFrames
    /\ frames' = Append(frames, payload)
    /\ cache' = IF ParsedFrames[payload].raised THEN <<>>
                ELSE PutAll(cache, ParsedFrames[payload].found)
    /\ UNCHANGED <<clock, faults, DRY_RUN, index_prices, index_metadata,
                   utils_is_market_open_at, pc, now, rows, metadata_to_upsert,
                   session, pending, existing, idx, force, orig, written,
                   fault, path, cause, overlap, base, seen, done, prev,
                   gate_now, gate_tz, gate_open, parse_payload, parse_result,
                   fa_pc, fa_calls, fa_direct, fa_fallbacks, fa_result, pw_pc,
                   pw_driver, pw_browser, pw_launches, pw_result,
                   pw_responses, pw_elapsed, pw_exc, pw_return,
                   index_constituents, bm_pc, bm_argv, bm_groups, bm_g,
                   bm_payload, bm_log, mw_pc, mw_args, mw_pending, mw_calls,
                   SCRAPER_INSTANCE, SCRAPER_READY, scrapers, lf_pc, lf_inst,
                   lf_force, lf_orig, lf_seconds, lf_last, lf_ret, lf_ops,
                   lf_cycles>>

\* _on_frame(frame): _parse_payload runs to its end before the first cache
\* write; an exception of _on_ws_frame is caught and logged (lines 87-90)
OnWsFrame(payload) ==
    /\ Len(frames) < MaxFrames
    /\ frames' = Append(frames, payload)
    /\ cache' = IF ParsedFrames[payload].raised THEN cache
                ELSE PutAll(cache, ParsedFrames[payload].found)
    /\ UNCHANGED <<clock, faults, DRY_RUN, index_prices, index_metadata,
                   utils_is_market_open_at, pc, now, rows, metadata_to_upsert,
                   session, pending, existing, idx, force, orig, written,
                   fault, path, cause, overlap, base, seen, done, prev,
                   gate_now, gate_tz, gate_open, parse_payload, parse_result,
                   fa_pc, fa_calls, fa_direct, fa_fallbacks, fa_result, pw_pc,
                   pw_driver, pw_browser, pw_launches, pw_result,
                   pw_responses, pw_elapsed, pw_exc, pw_return,
                   index_constituents, bm_pc, bm_argv, bm_groups, bm_g,
                   bm_payload, bm_log, mw_pc, mw_args, mw_pending, mw_calls,
                   SCRAPER_INSTANCE, SCRAPER_READY, scrapers, lf_pc, lf_inst,
                   lf_force, lf_orig, lf_seconds, lf_last, lf_ret, lf_ops,
                   lf_cycles>>

(***************************************************************************)
(* Starting and ending a cycle.                                            *)
(***************************************************************************)
Running == {p \in Procs : pc[p] # "idle"}

\* "from ..utils import is_market_open_at" binds the function in the module
\* of the scraper at import: the call of line 100 does not read the
\* attribute of module utils
vn_scraper_is_market_open_at(n, tz) == is_market_open_at(n, tz)

\* the instants datetime.utcnow() can return: the clock does not go back
ClockReadings == {clock} \cup {clock + d : d \in ClockSteps}


\* lines 96-102 in executor p, which enters _take_snapshot
TakeSnapshotStart(p) ==
    /\ overlap' = [q \in Procs |-> IF q = p THEN Running # {}
                                   ELSE overlap[q] \/ q \in Running]
    /\ base' = [base EXCEPT ![p] = done]
    /\ IF cache = <<>>
       THEN /\ pc' = [pc EXCEPT ![p] = "ret"]
            /\ path' = [path EXCEPT ![p] = "empty"]
            /\ UNCHANGED <<now, clock>>
       ELSE \E c \in ClockReadings :
            /\ clock' = c
            /\ now' = [now EXCEPT ![p] = c]
            /\ IF ~vn_scraper_is_market_open_at(utcnow(c), MARKET_TZ)
               THEN /\ pc' = [pc EXCEPT ![p] = "ret"]
                    /\ path' = [path EXCEPT ![p] = "closed"]
               ELSE /\ pc' = [pc EXCEPT ![p] = "build"]
                    /\ UNCHANGED path

\* the cycle of p ran alone, built its rows, met no storage error and has
\* returned
Clean(p) ==
    /\ pc[p] = "ret" /\ path[p] \in {"dry", "bulk"}
    /\ ~overlap[p] /\ fault[p] = "none"

\* the record of the cycle of p, once finished
LogEntry(p) ==
    [path |-> path[p], now |-> now[p], rows |-> rows[p], seen |-> seen[p],
     inserted |-> Cardinality(written[p]), dups |-> Cardinality(existing[p])]

\* _take_snapshot has returned or raised in executor p: its locals die
Leave(p) ==
    /\ pc[p] \in {"ret", "exc"}
    /\ done' = done + 1
    /\ prev' = IF Clean(p) THEN LogEntry(p) ELSE NoCycle
    /\ pc' = [pc EXCEPT ![p] = "idle"]
    /\ now' = [now EXCEPT ![p] = 0]
    /\ rows' = [rows EXCEPT ![p] = <<>>]
    /\ metadata_to_upsert' = [metadata_to_upsert EXCEPT ![p] = <<>>]
    /\ existing' = [existing EXCEPT ![p] = {}]
    /\ idx' = [idx EXCEPT ![p] = 0]
    /\ written' = [written EXCEPT ![p] = {}]
    /\ fault' = [fault EXCEPT ![p] = "none"]
    /\ path' = [path EXCEPT ![p] = "none"]
    /\ cause' = [cause EXCEPT ![p] = "none"]
    /\ overlap' = [overlap EXCEPT ![p] = FALSE]
    /\ base' = [base EXCEPT ![p] = 0]
    /\ seen' = [seen EXCEPT ![p] = 0]
    /\ faults' = [faults EXCEPT ![p] = 0]

\* the APScheduler interval job 'snapshot' fires (max_instances is 1: the
\* job does not fire while its previous run is not over) and runs lines
\* 96-102
TimerFire ==
    /\ pc["timer"] = "idle"
    /\ done + Cardinality(Running) < MaxCycles
    /\ TakeSnapshotStart("timer")
    /\ UNCHANGED <<cache, frames, faults, DRY_RUN, index_prices,
                   index_metadata, utils_is_market_open_at, rows,
                   metadata_to_upsert, session, pending, existing, idx, force,
                   orig, written, fault, cause, seen, done, prev, gate_now,
                   gate_tz, gate_open, parse_payload, parse_result, fa_pc,
                   fa_calls, fa_direct, fa_fallbacks, fa_result, pw_pc,
                   pw_driver, pw_browser, pw_launches, pw_result,
                   pw_responses, pw_elapsed, pw_exc, pw_return,
                   index_constituents, bm_pc, bm_argv, bm_groups, bm_g,
                   bm_payload, bm_log, mw_pc, mw_args, mw_pending, mw_calls,
                   SCRAPER_INSTANCE, SCRAPER_READY, scrapers, lf_pc, lf_inst,
                   lf_force, lf_orig, lf_seconds, lf_last, lf_ret, lf_ops,
                   lf_cycles>>

\* the executor logs an exception of the job and keeps the job scheduled
TimerDone ==
    /\ Leave("timer")
    /\ UNCHANGED <<cache, frames, clock, DRY_RUN, index_prices,
                   index_metadata, utils_is_market_open_at, session, pending,
                   force, orig, gate_now, gate_tz, gate_open, parse_payload,
                   parse_result, fa_pc, fa_calls, fa_direct, fa_fallbacks,
                   fa_result, pw_pc, pw_driver, pw_browser, pw_launches,
                   pw_result, pw_responses, pw_elapsed, pw_exc, pw_return,
                   index_constituents, bm_pc, bm_argv, bm_groups, bm_g,
                   bm_payload, bm_log, mw_pc, mw_args, mw_pending, mw_calls,
                   SCRAPER_INSTANCE, SCRAPER_READY, scrapers, lf_pc, lf_inst,
                   lf_force, lf_orig, lf_seconds, lf_last, lf_ret, lf_ops,
                   lf_cycles>>

\* control_vn_snapshot(force) up to the call of inst._take_snapshot(), and
\* lines 96-102 of it
ControlSnapshot(f) ==
    /\ pc["api"] = "idle"
    /\ done + Cardinality(Running) < MaxCycles
    /\ TakeSnapshotStart("api")
    /\ force' = f
    /\ IF f THEN /\ orig' = utils_is_market_open_at
                 /\ utils_is_market_open_at' = "lambda"
            ELSE UNCHANGED <<orig, utils_is_market_open_at>>
    /\ UNCHANGED <<cache, frames, faults, DRY_RUN, index_prices,
                   index_metadata, rows, metadata_to_upsert, session, pending,
                   existing, idx, written, fault, cause, seen, done, prev,
                   gate_now, gate_tz, gate_open, parse_payload, parse_result,
                   fa_pc, fa_calls, fa_direct, fa_fallbacks, fa_result, pw_pc,
                   pw_driver, pw_browser, pw_launches, pw_result,
                   pw_responses, pw_elapsed, pw_exc, pw_return,
                   index_constituents, bm_pc, bm_argv, bm_groups, bm_g,
                   bm_payload, bm_log, mw_pc, mw_args, mw_pending, mw_calls,
                   SCRAPER_INSTANCE, SCRAPER_READY, scrapers, lf_pc, lf_inst,
                   lf_force, lf_orig, lf_seconds, lf_last, lf_ret, lf_ops,
                   lf_cycles>>

\* control_vn_snapshot after the call: the finally clause of line 216
ControlDone ==
    /\ Leave("api")
    /\ utils_is_market_open_at' = IF force THEN orig ELSE utils_is_market_open_at
    /\ force' = FALSE
    /\ orig' = "is_market_open_at"
    /\ UNCHANGED <<cache, frames, clock, DRY_RUN, index_prices,
                   index_metadata, session, pending, gate_now, gate_tz,
                   gate_open, parse_payload, parse_result, fa_pc, fa_calls,
                   fa_direct, fa_fallbacks, fa_result, pw_pc, pw_driver,
                   pw_browser, pw_launches, pw_result, pw_responses,
                   pw_elapsed, pw_exc, pw_return, index_constituents, bm_pc,
                   bm_argv, bm_groups, bm_g, bm_payload, bm_log, mw_pc,
                   mw_args, mw_pending, mw_calls, SCRAPER_INSTANCE,
                   SCRAPER_READY, scrapers, lf_pc, lf_inst, lf_force, lf_orig,
                   lf_seconds, lf_last, lf_ret, lf_ops, lf_cycles>>

(***************************************************************************)
(* VNScraper._take_snapshot, one action per storage interaction.  Every    *)
(* call on the session either succeeds, or raises IntegrityError when a    *)
(* uniqueness constraint rejects it, or raises another error (connection   *)
(* lost, timeout...) whatever the tables hold.                             *)
(***************************************************************************)
\* rows stamped with a second reading of the clock
RowTimestampAtBuild(p) == clock

\* the timestamp of the rows of the cycle of p: line 114 uses now of line 99
RowTimestamp(p) == now[p]

\* a row that takes its change from no record
RowOfMixed(entry, ts) ==
    [index_code |-> "VN:" \o entry.code,
     source |-> "vnboard",
     price |-> entry.price,
     change |-> IF entry.change = None THEN Some(0) ELSE None,
     change_percent |-> entry.change_percent,
     timestamp |-> ts]

\* lines 107-115
RowOf(entry, ts) ==
    [index_code |-> "VN:" \o entry.code,
     source |-> "vnboard",
     price |-> entry.price,
     change |-> entry.change,
     change_percent |-> entry.change_percent,
     timestamp |-> ts]

\* line 117
MetadataOf(entry) ==
    [code |-> "VN:" \o entry.code, name |-> entry.code, source |-> "vnboard"]

\* a dry run that does not return
AfterBuildNoDryRun(dry) == "meta_query"

\* lines 121-124: a dry run returns before the session is opened
AfterBuild(dry) == IF dry THEN "ret" ELSE "meta_query"

\* lines 104-124 but for the cache
BuildRows(p) ==
    /\ pc[p] = "build"
    /\ rows' = [rows EXCEPT ![p] =
                  [k \in 1..Len(cache) |-> RowOf(cache[k], RowTimestamp(p))]]
    /\ metadata_to_upsert' = [metadata_to_upsert EXCEPT ![p] =
                  [k \in 1..Len(cache) |-> MetadataOf(cache[k])]]
    /\ seen' = [seen EXCEPT ![p] = Len(frames)]
    /\ pc' = [pc EXCEPT ![p] = AfterBuild(DRY_RUN)]
    /\ path' = [path EXCEPT ![p] = IF AfterBuild(DRY_RUN) = "ret" THEN "dry" ELSE @]
    /\ UNCHANGED <<frames, clock, faults, DRY_RUN, index_prices,
                   index_metadata, utils_is_market_open_at, now, session,
                   pending, existing, idx, force, orig, written, fault, cause,
                   overlap, base, done, prev, gate_now, gate_tz, gate_open,
                   parse_payload, parse_result, fa_pc, fa_calls, fa_direct,
                   fa_fallbacks, fa_result, pw_pc, pw_driver, pw_browser,
                   pw_launches, pw_result, pw_responses, pw_elapsed, pw_exc,
                   pw_return, index_constituents, bm_pc, bm_argv, bm_groups,
                   bm_g, bm_payload, bm_log, mw_pc, mw_args, mw_pending,
                   mw_calls, SCRAPER_INSTANCE, SCRAPER_READY, scrapers, lf_pc,
                   lf_inst, lf_force, lf_orig, lf_seconds, lf_last, lf_ret,
                   lf_ops, lf_cycles>>

\* a drain that empties the cache
BuildDrain(p) == BuildRows(p) /\ cache' = <<>>

\* lines 104-124: list(self.cache.items()) reads the cache
Build(p) == BuildRows(p) /\ UNCHANGED cache

SetFault(p, step) == [fault EXCEPT ![p] = IF @ = "none" THEN step ELSE @]

\* a storage call fails with another error than IntegrityError
Fails(p) ==
    faults[p] < MaxFaults /\ faults' = [faults EXCEPT ![p] = @ + 1]

\* a try statement whose every error starts the row-by-row retry
HandlerAlwaysRetry(kind) == "retry"

\* where the try statement of lines 127-166 goes after an error of the bulk
\* path: "except IntegrityError" (line 151, the retry) or "except
\* Exception" (line 163, the return)
Handler(kind) == IF kind = "integrity" THEN "retry" ELSE "ret"

\* an error of kind kind raised by the call step of the bulk path.  Line
\* 152: session.rollback() is in the handler of line 151, an error of it
\* leaves the cycle through the finally clause; after it the session is
\* usable again and the objects that were added are expunged.
Raise(p, step, kind) ==
    /\ pending' = [pending EXCEPT ![p] = <<>>]
    /\ cause' = [cause EXCEPT ![p] = IF kind = "integrity" THEN step ELSE @]
    /\ IF Handler(kind) = "retry"
       THEN \E ok \in IF kind = "integrity" THEN BOOLEAN ELSE {TRUE} :
            IF ok
            THEN /\ IF kind = "integrity" THEN UNCHANGED <<faults, fault>>
                    ELSE Fails(p) /\ fault' = SetFault(p, step)
                 /\ pc' = [pc EXCEPT ![p] = "retry"]
                 /\ path' = [path EXCEPT ![p] = "retry"]
                 /\ idx' = [idx EXCEPT ![p] = 1]
                 /\ session' = [session EXCEPT ![p] = "active"]
            ELSE /\ Fails(p)
                 /\ fault' = SetFault(p, "rollback")
                 /\ pc' = [pc EXCEPT ![p] = "exc"]
                 /\ session' = [session EXCEPT ![p] = "closed"]
                 /\ UNCHANGED <<path, idx>>
       ELSE /\ Fails(p)
            /\ fault' = SetFault(p, step)
            /\ pc' = [pc EXCEPT ![p] = "ret"]
            /\ session' = [session EXCEPT ![p] = "closed"]
            /\ UNCHANGED <<path, idx>>

\* line 126, outside the try: an error of SessionLocal() leaves the cycle.
\* Lines 129-132: the check of check-then-insert, and session.add
MetaQuery(p) ==
    /\ pc[p] = "meta_query"
    /\ \/ /\ Fails(p)
          /\ fault' = SetFault(p, "open")
          /\ pc' = [pc EXCEPT ![p] = "exc"]
          /\ UNCHANGED <<session, pending, cause, path, idx>>
       \/ /\ session' = [session EXCEPT ![p] = "active"]
          /\ path' = [path EXCEPT ![p] = "bulk"]
          /\ pending' = [pending EXCEPT ![p] =
                SelectSeq(metadata_to_upsert[p],
                          LAMBDA md : u_index_metadata_code(index_metadata, md))]
          /\ pc' = [pc EXCEPT ![p] = "meta_commit"]
          /\ UNCHANGED <<faults, fault, cause, idx>>
       \/ /\ Raise(p, "meta_query", "other")
    /\ UNCHANGED <<cache, frames, clock, DRY_RUN, index_prices,
                   index_metadata, utils_is_market_open_at, now, rows,
                   metadata_to_upsert, existing, force, orig, written,
                   overlap, base, seen, done, prev, gate_now, gate_tz,
                   gate_open, parse_payload, parse_result, fa_pc, fa_calls,
                   fa_direct, fa_fallbacks, fa_result, pw_pc, pw_driver,
                   pw_browser, pw_launches, pw_result, pw_responses,
                   pw_elapsed, pw_exc, pw_return, index_constituents, bm_pc,
                   bm_argv, bm_groups, bm_g, bm_payload, bm_log, mw_pc,
                   mw_args, mw_pending, mw_calls, SCRAPER_INSTANCE,
                   SCRAPER_READY, scrapers, lf_pc, lf_inst, lf_force, lf_orig,
                   lf_seconds, lf_last, lf_ret, lf_ops, lf_cycles>>

\* line 133: session.commit() flushes the added IndexMetadata objects in one
\* transaction
MetaCommit(p) ==
    /\ pc[p] = "meta_commit"
    /\ LET conflict == \E k \in 1..Len(pending[p]) :
                          ~u_index_metadata_code(index_metadata, pending[p][k])
       IN \/ /\ ~conflict
             /\ index_metadata' = InsertAll(index_metadata, pending[p])
             /\ pending' = [pending EXCEPT ![p] = <<>>]
             /\ pc' = [pc EXCEPT ![p] = "dedup"]
             /\ UNCHANGED <<faults, fault, session, cause, path, idx>>
          \/ /\ conflict
             /\ Raise(p, "meta_commit", "integrity")
             /\ UNCHANGED index_metadata
          \/ /\ Raise(p, "meta_commit", "other")
             /\ UNCHANGED index_metadata
    /\ UNCHANGED <<cache, frames, clock, DRY_RUN, index_prices,
                   utils_is_market_open_at, now, rows, metadata_to_upsert,
                   existing, force, orig, written, overlap, base, seen, done,
                   prev, gate_now, gate_tz, gate_open, parse_payload,
                   parse_result, fa_pc, fa_calls, fa_direct, fa_fallbacks,
                   fa_result, pw_pc, pw_driver, pw_browser, pw_launches,
                   pw_result, pw_responses, pw_elapsed, pw_exc, pw_return,
                   index_constituents, bm_pc, bm_argv, bm_groups, bm_g,
                   bm_payload, bm_log, mw_pc, mw_args, mw_pending, mw_calls,
                   SCRAPER_INSTANCE, SCRAPER_READY, scrapers, lf_pc, lf_inst,
                   lf_force, lf_orig, lf_seconds, lf_last, lf_ret, lf_ops,
                   lf_cycles>>

\* a pre-query that filters on the codes only and pairs every stored code
\* with the timestamps of rows
ExistingPairsByCode(table, rs) ==
    {<<x.row.index_code, rs[k].timestamp>> : x \in table, k \in 1..Len(rs)}

\* lines 136-141: the stored pairs among the codes and timestamps of rows
ExistingPairs(table, rs) ==
    {PairOf(r.row) : r \in {x \in table :
        /\ \E k \in 1..Len(rs) : rs[k].index_code = x.row.index_code
        /\ \E k \in 1..Len(rs) : rs[k].timestamp = x.row.timestamp}}

DedupQuery(p) ==
    /\ pc[p] = "dedup"
    /\ \/ /\ existing' = [existing EXCEPT ![p] = ExistingPairs(index_prices, rows[p])]
          /\ pc' = [pc EXCEPT ![p] = "bulk"]
          /\ UNCHANGED <<faults, fault, session, pending, cause, path, idx>>
       \/ /\ Raise(p, "dedup", "other")
          /\ UNCHANGED existing
    /\ UNCHANGED <<cache, frames, clock, DRY_RUN, index_prices,
                   index_metadata, utils_is_market_open_at, now, rows,
                   metadata_to_upsert, force, orig, written, overlap, base,
                   seen, done, prev, gate_now, gate_tz, gate_open,
                   parse_payload, parse_result, fa_pc, fa_calls, fa_direct,
                   fa_fallbacks, fa_result, pw_pc, pw_driver, pw_browser,
                   pw_launches, pw_result, pw_responses, pw_elapsed, pw_exc,
                   pw_return, index_constituents, bm_pc, bm_argv, bm_groups,
                   bm_g, bm_payload, bm_log, mw_pc, mw_args, mw_pending,
                   mw_calls, SCRAPER_INSTANCE, SCRAPER_READY, scrapers, lf_pc,
                   lf_inst, lf_force, lf_orig, lf_seconds, lf_last, lf_ret,
                   lf_ops, lf_cycles>>

\* a deduplication that drops the whole batch when one of its pairs is stored
new_rows_all_or_none(p) == IF existing[p] = {} THEN rows[p] ELSE <<>>

\* line 143
new_rows(p) == SelectSeq(rows[p], LAMBDA r : PairOf(r) \notin existing[p])

\* lines 144-150: bulk_save_objects and commit, one transaction
BulkInsert(p) ==
    /\ pc[p] = "bulk"
    /\ LET nr == new_rows(p)
           conflict == \E k \in 1..Len(nr) : ~u_index_time(index_prices, nr[k])
       IN IF nr = <<>>
          THEN /\ pc' = [pc EXCEPT ![p] = "ret"]
               /\ session' = [session EXCEPT ![p] = "closed"]
               /\ UNCHANGED <<index_prices, written, faults, fault, pending,
                              cause, path, idx>>
          ELSE \/ /\ ~conflict
                  /\ index_prices' = InsertAll(index_prices, nr)
                  /\ written' = [written EXCEPT ![p] =
                                    @ \cup NextIds(index_prices, Len(nr))]
                  /\ pc' = [pc EXCEPT ![p] = "ret"]
                  /\ session' = [session EXCEPT ![p] = "closed"]
                  /\ UNCHANGED <<faults, fault, pending, cause, path, idx>>
               \/ /\ conflict
                  /\ Raise(p, "bulk", "integrity")
                  /\ UNCHANGED <<index_prices, written>>
               \/ /\ Raise(p, "bulk", "other")
                  /\ UNCHANGED <<index_prices, written>>
    /\ UNCHANGED <<cache, frames, clock, DRY_RUN, index_metadata,
                   utils_is_market_open_at, now, rows, metadata_to_upsert,
                   existing, force, orig, overlap, base, seen, done, prev,
                   gate_now, gate_tz, gate_open, parse_payload, parse_result,
                   fa_pc, fa_calls, fa_direct, fa_fallbacks, fa_result, pw_pc,
                   pw_driver, pw_browser, pw_launches, pw_result,
                   pw_responses, pw_elapsed, pw_exc, pw_return,
                   index_constituents, bm_pc, bm_argv, bm_groups, bm_g,
                   bm_payload, bm_log, mw_pc, mw_args, mw_pending, mw_calls,
                   SCRAPER_INSTANCE, SCRAPER_READY, scrapers, lf_pc, lf_inst,
                   lf_force, lf_orig, lf_seconds, lf_last, lf_ret, lf_ops,
                   lf_cycles>>

\* a handler that tries the first row only and gives up
NextRowStop(k, outcome, n) == n + 1

\* a retry loop that stops at the first IntegrityError
NextRowBreak(k, outcome, n) == IF outcome = "integrity" THEN n + 1 ELSE k + 1

\* the position of the retry loop after the row at position k: the loop goes
\* on to the next row whatever happened to this one
NextRow(k, outcome, n) == k + 1

\* lines 154-162: one iteration of the retry loop, and line 166 after the
\* last one.  A commit that failed with another error than IntegrityError
\* is not rolled back (line 161): the session stays deactivated and every
\* later commit raises PendingRollbackError.  An error of the rollback of
\* line 160 leaves the cycle.
RetryRow(p) ==
    /\ pc[p] = "retry"
    /\ IF idx[p] > Len(rows[p])
       THEN /\ pc' = [pc EXCEPT ![p] = "ret"]
            /\ session' = [session EXCEPT ![p] = "closed"]
            /\ UNCHANGED <<index_prices, written, fault, idx, faults>>
       ELSE LET r == rows[p][idx[p]]
                n == Len(rows[p])
            IN IF session[p] = "deactive"
               THEN /\ idx' = [idx EXCEPT ![p] = NextRow(@, "pending_rollback", n)]
                    /\ UNCHANGED <<index_prices, written, fault, pc, session, faults>>
               ELSE \/ /\ u_index_time(index_prices, r)
                       /\ index_prices' = InsertAll(index_prices, <<r>>)
                       /\ written' = [written EXCEPT ![p] =
                                         @ \cup NextIds(index_prices, 1)]
                       /\ idx' = [idx EXCEPT ![p] = NextRow(@, "ok", n)]
                       /\ UNCHANGED <<fault, pc, session, faults>>
                    \/ /\ ~u_index_time(index_prices, r)
                       /\ \E ok \in BOOLEAN :
                            IF ok
                            THEN /\ idx' = [idx EXCEPT ![p] = NextRow(@, "integrity", n)]
                                 /\ UNCHANGED <<fault, pc, session, faults>>
                            ELSE /\ Fails(p)
                                 /\ pc' = [pc EXCEPT ![p] = "exc"]
                                 /\ session' = [session EXCEPT ![p] = "closed"]
                                 /\ fault' = SetFault(p, "retry_rollback")
                                 /\ UNCHANGED idx
                       /\ UNCHANGED <<index_prices, written>>
                    \/ /\ Fails(p)
                       /\ session' = [session EXCEPT ![p] = "deactive"]
                       /\ fault' = SetFault(p, "retry")
                       /\ idx' = [idx EXCEPT ![p] = NextRow(@, "other", n)]
                       /\ UNCHANGED <<index_prices, written, pc>>
    /\ UNCHANGED <<cache, frames, clock, DRY_RUN, index_metadata,
                   utils_is_market_open_at, now, rows, metadata_to_upsert,
                   pending, existing, force, orig, path, cause, overlap, base,
                   seen, done, prev, gate_now, gate_tz, gate_open,
                   parse_payload, parse_result, fa_pc, fa_calls, fa_direct,
                   fa_fallbacks, fa_result, pw_pc, pw_driver, pw_browser,
                   pw_launches, pw_result, pw_responses, pw_elapsed, pw_exc,
                   pw_return, index_constituents, bm_pc, bm_argv, bm_groups,
                   bm_g, bm_payload, bm_log, mw_pc, mw_args, mw_pending,
                   mw_calls, SCRAPER_INSTANCE, SCRAPER_READY, scrapers, lf_pc,
                   lf_inst, lf_force, lf_orig, lf_seconds, lf_last, lf_ret,
                   lf_ops, lf_cycles>>

Next ==
    \/ \E payload \in Payloads : OnWsFrame(payload)
    \/ TimerFire
    \/ TimerDone
    \/ \E f \in BOOLEAN : ControlSnapshot(f)
    \/ ControlDone
    \/ \E p \in Procs : Build(p)
    \/ \E p \in Procs : MetaQuery(p)
    \/ \E p \in Procs : MetaCommit(p)
    \/ \E p \in Procs : DedupQuery(p)
    \/ \E p \in Procs : BulkInsert(p)
    \/ \E p \in Procs : RetryRow(p)

Spec == Init /\ [][Next]_vars


(***************************************************************************)
(* Calls of utils.is_market_open_at on arbitrary datetimes and zones.      *)
(***************************************************************************)
\* zones of the arguments: UTC, Asia/Ho_Chi_Minh, and UTC-05:00
GateZones == {0, MARKET_TZ, 0 - 5 * 60}

\* times of day of the arguments: the window endpoints, their neighbours,
\* the times of the tests, and the same instants read in the other zones
GateMinutes ==
    {0, 2 * 60, 4 * 60 + 30, 4 * 60 + 31, 8 * 60, 8 * 60 + 59, 9 * 60,
     9 * 60 + 30, 10 * 60, 11 * 60 + 30, 11 * 60 + 31, 12 * 60,
     12 * 60 + 59, 13 * 60, 14 * 60, 15 * 60, 15 * 60 + 1, 15 * 60 + 30,
     21 * 60, 23 * 60 + 30, 23 * 60 + 31}

\* datetime values without tzinfo
GateNaive == {Naive(wd, min) : wd \in 0..6, min \in GateMinutes}

\* datetime values with tzinfo
GateAware ==
    {Aware(off, wd, min) : off \in GateZones, wd \in 0..6, min \in GateMinutes}

InitGate ==
    /\ ScraperInit /\ ~DRY_RUN
    /\ gate_now \in GateNaive \cup GateAware
    /\ gate_tz \in GateZones
    /\ gate_open = None
    /\ ParserUnset
    /\ FetchIdle
    /\ BatchIdle
    /\ MetaIdle
    /\ LifeIdle

\* gate_open = is_market_open_at(gate_now, gate_tz)
GateCall ==
    /\ gate_open = None
    /\ gate_open' = Some(is_market_open_at(gate_now, gate_tz))
    /\ UNCHANGED <<cache, frames, clock, faults, DRY_RUN, index_prices,
                   index_metadata, utils_is_market_open_at, pc, now, rows,
                   metadata_to_upsert, session, pending, existing, idx, force,
                   orig, written, fault, path, cause, overlap, base, seen,
                   done, prev, gate_now, gate_tz, parse_payload, parse_result,
                   fa_pc, fa_calls, fa_direct, fa_fallbacks, fa_result, pw_pc,
                   pw_driver, pw_browser, pw_launches, pw_result,
                   pw_responses, pw_elapsed, pw_exc, pw_return,
                   index_constituents, bm_pc, bm_argv, bm_groups, bm_g,
                   bm_payload, bm_log, mw_pc, mw_args, mw_pending, mw_calls,
                   SCRAPER_INSTANCE, SCRAPER_READY, scrapers, lf_pc, lf_inst,
                   lf_force, lf_orig, lf_seconds, lf_last, lf_ret, lf_ops,
                   lf_cycles>>

NextGate == GateCall

SpecGate == InitGate /\ [][NextGate]_vars

(***************************************************************************)
(* Calls of _parse_payload on payloads built from one index message: the   *)
(* message under each code alias and price alias, with each kind of price  *)
(* value, alone or with other fields, at several nesting depths.           *)
(***************************************************************************)
CodeAliases == {"code", "symbol", "indexCode"}
PriceAliases == {"last", "lastPrice", "price"}

\* values of the price field: a number, the number zero, a numeric string,
\* a string float() rejects
PriceValues == {JNum(7), JNum(0), JStr("7"), JStr("n/a")}

\* other fields of the message: none, a numeric change, a change float()
\* rejects, a percent float() rejects, a non-numeric value under the first
\* price alias, a zero under the first price alias
ExtraFields ==
    {<<>>, << <<"change", JNum(1)>> >>, << <<"chg", JStr("n/a")>> >>,
     << <<"percent", JArr(<<JNum(1)>>)>> >>,
     << <<"last", JStr("n/a")>> >>, << <<"last", JNum(0)>> >>}

\* the index messages: no key appears twice
Messages ==
    {JObj(<< <<ck, JStr("VN30")>> >> \o extra \o << <<pk, pv>> >>) :
        <<ck, pk, pv, extra>> \in
            {q \in CodeAliases \X PriceAliases \X PriceValues \X ExtraFields :
                q[4] = <<>> \/ q[4][1][1] # q[2]}}

\* a message of another code, second shape of test_parse_nested_message
OtherMessage == JObj(<< <<"symbol", JStr("VNINDEX")>>, <<"lastPrice", JNum(10)>> >>)

\* the documents a message comes in: alone, in an array, under data.items,
\* after a message of another code, before one
Documents(msg) ==
    {msg,
     JArr(<<msg>>),
     JObj(<< <<"data", JObj(<< <<"items", JArr(<<msg>>)>> >>)>> >>),
     JArr(<<OtherMessage, JObj(<< <<"payload", msg>> >>)>>),
     JArr(<<msg, OtherMessage>>)}

\* documents with no recognized field
PlainDocuments ==
    {JNum(7), JStr("VN30"), JNull, JArr(<<>>),
     JObj(<< <<"event", JStr("ping")>>, <<"seq", JArr(<<JNum(0)>>)>> >>)}

ParserInputs ==
    UNION {{TextJson(doc), TextQuoted(doc), TextEncoded(doc)} :
              doc \in UNION {Documents(msg) : msg \in Messages}}
        \cup {TextJson(doc) : doc \in PlainDocuments}
        \cup {TextGarbage}

InitParse ==
    /\ ScraperInit /\ ~DRY_RUN
    /\ GateUnset
    /\ parse_payload \in ParserInputs
    /\ parse_result = None
    /\ FetchIdle
    /\ BatchIdle
    /\ MetaIdle
    /\ LifeIdle

\* parse_result = _parse_payload(parse_payload)
ParseCall ==
    /\ parse_result = None
    /\ parse_result' = Some(_parse_payload(parse_payload))
    /\ UNCHANGED <<cache, frames, clock, faults, DRY_RUN, index_prices,
                   index_metadata, utils_is_market_open_at, pc, now, rows,
                   metadata_to_upsert, session, pending, existing, idx, force,
                   orig, written, fault, path, cause, overlap, base, seen,
                   done, prev, gate_now, gate_tz, gate_open, parse_payload,
                   fa_pc, fa_calls, fa_direct, fa_fallbacks, fa_result, pw_pc,
                   pw_driver, pw_browser, pw_launches, pw_result,
                   pw_responses, pw_elapsed, pw_exc, pw_return,
                   index_constituents, bm_pc, bm_argv, bm_groups, bm_g,
                   bm_payload, bm_log, mw_pc, mw_args, mw_pending, mw_calls,
                   SCRAPER_INSTANCE, SCRAPER_READY, scrapers, lf_pc, lf_inst,
                   lf_force, lf_orig, lf_seconds, lf_last, lf_ret, lf_ops,
                   lf_cycles>>

NextParse == ParseCall

SpecParse == InitParse /\ [][NextParse]_vars

(***************************************************************************)
(* fetch_group_auto: the direct HTTP fetch (fetch_group), then the browser *)
(* fallback (fetch_group_via_playwright).  A session of the fallback is    *)
(* the Playwright driver started by sync_playwright() and the browser it   *)
(* launched.                                                               *)
(***************************************************************************)
MaxFetches == 2
MaxResponses == 2
\* timeout of the polling loop, in sleeps
PollTimeout == 2

\* bodies of the group endpoint: a group with one constituent, an empty
\* object, an empty list
GroupBody ==
    JObj(<< <<"data", JArr(<< JObj(<< <<"symbol", JStr("FPT")>> >>) >>)>> >>)
Bodies == {GroupBody, JObj(<<>>), JArr(<<>>)}

\* how fetch_group(group) ends: resp.json() returned, raise_for_status()
\* raised HTTPError for a status, requests.get raised a transport error,
\* resp.json() raised on a body that is not JSON
DirectOutcomes ==
    {[kind |-> "ok", status |-> 200, body |-> b] : b \in Bodies}
        \cup {[kind |-> "http", status |-> s, body |-> JNull] : s \in {403, 500}}
        \cup {[kind |-> "transport", status |-> 0, body |-> JNull],
              [kind |-> "badjson", status |-> 200, body |-> JNull]}

\* the responses the page receives: url is whether the url contains
\* /stock/group/{group}; decodes is "json" when response.json() returns
\* body, "text" when it raises and json.loads(response.text()) returns
\* body, "no" when both raise
Responses ==
    {[url |-> FALSE, decodes |-> "json", body |-> GroupBody],
     [url |-> TRUE, decodes |-> "no", body |-> JNull],
     [url |-> TRUE, decodes |-> "text", body |-> GroupBody]}
        \cup {[url |-> TRUE, decodes |-> "json", body |-> b] : b \in Bodies}

\* lines 17-21: a call of fetch_group_auto, by a caller that is not inside
\* one
FetchAuto ==
    /\ fa_pc \in {"idle", "done"}
    /\ fa_calls < MaxFetches
    /\ fa_pc' = "direct"
    /\ fa_calls' = fa_calls + 1
    /\ fa_direct' = NotReturned
    /\ fa_fallbacks' = 0
    /\ fa_result' = NotReturned
    /\ pw_launches' = 0
    /\ UNCHANGED <<cache, frames, clock, faults, DRY_RUN, index_prices,
                   index_metadata, utils_is_market_open_at, pc, now, rows,
                   metadata_to_upsert, session, pending, existing, idx, force,
                   orig, written, fault, path, cause, overlap, base, seen,
                   done, prev, gate_now, gate_tz, gate_open, parse_payload,
                   parse_result, pw_pc, pw_driver, pw_browser, pw_result,
                   pw_responses, pw_elapsed, pw_exc, pw_return,
                   index_constituents, bm_pc, bm_argv, bm_groups, bm_g,
                   bm_payload, bm_log, mw_pc, mw_args, mw_pending, mw_calls,
                   SCRAPER_INSTANCE, SCRAPER_READY, scrapers, lf_pc, lf_inst,
                   lf_force, lf_orig, lf_seconds, lf_last, lf_ret, lf_ops,
                   lf_cycles>>

\* a fallback for HTTP 403 only
FallsBackOn403(outcome) == outcome.kind = "http" /\ outcome.status = 403

\* lines 19-32: "return payload" is reached only when http_fetch returned;
\* HTTPError and every other Exception are caught and fall through
FallsBack(outcome) == outcome.kind # "ok"

\* lines 19-36: http_fetch(group) ends with outcome; the fallback is called
\* when it failed
HttpFetch(outcome) ==
    /\ fa_pc = "direct"
    /\ fa_direct' = outcome
    /\ IF FallsBack(outcome)
       THEN /\ fa_pc' = "fallback"
            /\ fa_fallbacks' = fa_fallbacks + 1
            /\ pw_pc' = "start"
            /\ pw_return' = NotReturned
            /\ pw_exc' = FALSE
            /\ pw_result' = JObj(<<>>)
            /\ pw_responses' = 0
            /\ pw_elapsed' = 0
            /\ UNCHANGED fa_result
       ELSE /\ fa_pc' = "done"
            /\ fa_result' = Return(outcome.body)
            /\ UNCHANGED <<fa_fallbacks, pw_pc, pw_return, pw_exc, pw_result,
                           pw_responses, pw_elapsed>>
    /\ UNCHANGED <<cache, frames, clock, faults, DRY_RUN, index_prices,
                   index_metadata, utils_is_market_open_at, pc, now, rows,
                   metadata_to_upsert, session, pending, existing, idx, force,
                   orig, written, fault, path, cause, overlap, base, seen,
                   done, prev, gate_now, gate_tz, gate_open, parse_payload,
                   parse_result, fa_calls, pw_driver, pw_browser, pw_launches,
                   index_constituents, bm_pc, bm_argv, bm_groups, bm_g,
                   bm_payload, bm_log, mw_pc, mw_args, mw_pending, mw_calls,
                   SCRAPER_INSTANCE, SCRAPER_READY, scrapers, lf_pc, lf_inst,
                   lf_force, lf_orig, lf_seconds, lf_last, lf_ret, lf_ops,
                   lf_cycles>>

\* line 24: sync_playwright().__enter__() starts the driver, or raises
PwStart(ok) ==
    /\ pw_pc = "start"
    /\ IF ok
       THEN /\ pw_driver' = TRUE
            /\ pw_pc' = "launch"
            /\ UNCHANGED pw_return
       ELSE /\ pw_return' = Raised
            /\ pw_pc' = "ended"
            /\ UNCHANGED pw_driver
    /\ UNCHANGED <<cache, frames, clock, faults, DRY_RUN, index_prices,
                   index_metadata, utils_is_market_open_at, pc, now, rows,
                   metadata_to_upsert, session, pending, existing, idx, force,
                   orig, written, fault, path, cause, overlap, base, seen,
                   done, prev, gate_now, gate_tz, gate_open, parse_payload,
                   parse_result, fa_pc, fa_calls, fa_direct, fa_fallbacks,
                   fa_result, pw_browser, pw_launches, pw_result,
                   pw_responses, pw_elapsed, pw_exc, index_constituents,
                   bm_pc, bm_argv, bm_groups, bm_g, bm_payload, bm_log, mw_pc,
                   mw_args, mw_pending, mw_calls, SCRAPER_INSTANCE,
                   SCRAPER_READY, scrapers, lf_pc, lf_inst, lf_force, lf_orig,
                   lf_seconds, lf_last, lf_ret, lf_ops, lf_cycles>>

\* line 25: pw.chromium.launch
PwLaunch(ok) ==
    /\ pw_pc = "launch"
    /\ IF ok
       THEN /\ pw_browser' = TRUE
            /\ pw_launches' = pw_launches + 1
            /\ pw_pc' = "page"
            /\ UNCHANGED pw_exc
       ELSE /\ pw_exc' = TRUE
            /\ pw_pc' = "exit"
            /\ UNCHANGED <<pw_browser, pw_launches>>
    /\ UNCHANGED <<cache, frames, clock, faults, DRY_RUN, index_prices,
                   index_metadata, utils_is_market_open_at, pc, now, rows,
                   metadata_to_upsert, session, pending, existing, idx, force,
                   orig, written, fault, path, cause, overlap, base, seen,
                   done, prev, gate_now, gate_tz, gate_open, parse_payload,
                   parse_result, fa_pc, fa_calls, fa_direct, fa_fallbacks,
                   fa_result, pw_driver, pw_result, pw_responses, pw_elapsed,
                   pw_return, index_constituents, bm_pc, bm_argv, bm_groups,
                   bm_g, bm_payload, bm_log, mw_pc, mw_args, mw_pending,
                   mw_calls, SCRAPER_INSTANCE, SCRAPER_READY, scrapers, lf_pc,
                   lf_inst, lf_force, lf_orig, lf_seconds, lf_last, lf_ret,
                   lf_ops, lf_cycles>>

\* lines 26-45: new_context, new_page, result = {}, page.on
PwNewPage(ok) ==
    /\ pw_pc = "page"
    /\ IF ok
       THEN /\ pw_result' = JObj(<<>>)
            /\ pw_pc' = "goto"
            /\ UNCHANGED pw_exc
       ELSE /\ pw_exc' = TRUE
            /\ pw_pc' = "exit"
            /\ UNCHANGED pw_result
    /\ UNCHANGED <<cache, frames, clock, faults, DRY_RUN, index_prices,
                   index_metadata, utils_is_market_open_at, pc, now, rows,
                   metadata_to_upsert, session, pending, existing, idx, force,
                   orig, written, fault, path, cause, overlap, base, seen,
                   done, prev, gate_now, gate_tz, gate_open, parse_payload,
                   parse_result, fa_pc, fa_calls, fa_direct, fa_fallbacks,
                   fa_result, pw_driver, pw_browser, pw_launches,
                   pw_responses, pw_elapsed, pw_return, index_constituents,
                   bm_pc, bm_argv, bm_groups, bm_g, bm_payload, bm_log, mw_pc,
                   mw_args, mw_pending, mw_calls, SCRAPER_INSTANCE,
                   SCRAPER_READY, scrapers, lf_pc, lf_inst, lf_force, lf_orig,
                   lf_seconds, lf_last, lf_ret, lf_ops, lf_cycles>>

\* lines 31-43: the interceptor, called for a response while the page
\* navigates or the loop polls; an error of it is logged
HandleResponse(response) ==
    /\ pw_pc \in {"goto", "poll"}
    /\ pw_responses < MaxResponses
    /\ pw_responses' = pw_responses + 1
    /\ pw_result' = IF response.url /\ response.decodes # "no"
                    THEN JObj(<< <<"json", response.body>> >>)
                    ELSE pw_result
    /\ UNCHANGED <<cache, frames, clock, faults, DRY_RUN, index_prices,
                   index_metadata, utils_is_market_open_at, pc, now, rows,
                   metadata_to_upsert, session, pending, existing, idx, force,
                   orig, written, fault, path, cause, overlap, base, seen,
                   done, prev, gate_now, gate_tz, gate_open, parse_payload,
                   parse_result, fa_pc, fa_calls, fa_direct, fa_fallbacks,
                   fa_result, pw_pc, pw_driver, pw_browser, pw_launches,
                   pw_elapsed, pw_exc, pw_return, index_constituents, bm_pc,
                   bm_argv, bm_groups, bm_g, bm_payload, bm_log, mw_pc,
                   mw_args, mw_pending, mw_calls, SCRAPER_INSTANCE,
                   SCRAPER_READY, scrapers, lf_pc, lf_inst, lf_force, lf_orig,
                   lf_seconds, lf_last, lf_ret, lf_ops, lf_cycles>>

\* lines 46-48: page.goto returns or raises (navigation error, timeout)
PwGoto(ok) ==
    /\ pw_pc = "goto"
    /\ IF ok
       THEN /\ pw_elapsed' = 0
            /\ pw_pc' = "poll"
            /\ UNCHANGED pw_exc
       ELSE /\ pw_exc' = TRUE
            /\ pw_pc' = "exit"
            /\ UNCHANGED pw_elapsed
    /\ UNCHANGED <<cache, frames, clock, faults, DRY_RUN, index_prices,
                   index_metadata, utils_is_market_open_at, pc, now, rows,
                   metadata_to_upsert, session, pending, existing, idx, force,
                   orig, written, fault, path, cause, overlap, base, seen,
                   done, prev, gate_now, gate_tz, gate_open, parse_payload,
                   parse_result, fa_pc, fa_calls, fa_direct, fa_fallbacks,
                   fa_result, pw_driver, pw_browser, pw_launches, pw_result,
                   pw_responses, pw_return, index_constituents, bm_pc,
                   bm_argv, bm_groups, bm_g, bm_payload, bm_log, mw_pc,
                   mw_args, mw_pending, mw_calls, SCRAPER_INSTANCE,
                   SCRAPER_READY, scrapers, lf_pc, lf_inst, lf_force, lf_orig,
                   lf_seconds, lf_last, lf_ret, lf_ops, lf_cycles>>

\* a loop that sleeps until the timeout whatever was captured
KeepsPollingToTimeout(result, elapsed) == elapsed < PollTimeout

\* line 49: the condition of the polling loop
KeepsPolling(result, elapsed) ==
    ~HasKey(result, "json") /\ elapsed < PollTimeout

\* lines 49-50: one test of the loop condition, and the sleep when it holds
PwPoll ==
    /\ pw_pc = "poll"
    /\ IF KeepsPolling(pw_result, pw_elapsed)
       THEN /\ pw_elapsed' = pw_elapsed + 1
            /\ UNCHANGED pw_pc
       ELSE /\ pw_pc' = "close"
            /\ UNCHANGED pw_elapsed
    /\ UNCHANGED <<cache, frames, clock, faults, DRY_RUN, index_prices,
                   index_metadata, utils_is_market_open_at, pc, now, rows,
                   metadata_to_upsert, session, pending, existing, idx, force,
                   orig, written, fault, path, cause, overlap, base, seen,
                   done, prev, gate_now, gate_tz, gate_open, parse_payload,
                   parse_result, fa_pc, fa_calls, fa_direct, fa_fallbacks,
                   fa_result, pw_driver, pw_browser, pw_launches, pw_result,
                   pw_responses, pw_exc, pw_return, index_constituents, bm_pc,
                   bm_argv, bm_groups, bm_g, bm_payload, bm_log, mw_pc,
                   mw_args, mw_pending, mw_calls, SCRAPER_INSTANCE,
                   SCRAPER_READY, scrapers, lf_pc, lf_inst, lf_force, lf_orig,
                   lf_seconds, lf_last, lf_ret, lf_ops, lf_cycles>>

\* lines 52-55: browser.close(); an error of it is swallowed
PwClose(ok) ==
    /\ pw_pc = "close"
    /\ pw_browser' = IF ok THEN FALSE ELSE pw_browser
    /\ pw_pc' = "exit"
    /\ UNCHANGED <<cache, frames, clock, faults, DRY_RUN, index_prices,
                   index_metadata, utils_is_market_open_at, pc, now, rows,
                   metadata_to_upsert, session, pending, existing, idx, force,
                   orig, written, fault, path, cause, overlap, base, seen,
                   done, prev, gate_now, gate_tz, gate_open, parse_payload,
                   parse_result, fa_pc, fa_calls, fa_direct, fa_fallbacks,
                   fa_result, pw_driver, pw_launches, pw_result, pw_responses,
                   pw_elapsed, pw_exc, pw_return, index_constituents, bm_pc,
                   bm_argv, bm_groups, bm_g, bm_payload, bm_log, mw_pc,
                   mw_args, mw_pending, mw_calls, SCRAPER_INSTANCE,
                   SCRAPER_READY, scrapers, lf_pc, lf_inst, lf_force, lf_orig,
                   lf_seconds, lf_last, lf_ret, lf_ops, lf_cycles>>

\* line 57 and the end of the with block: the value of result.get('json')
\* is returned, or the exception goes on
PwLeave ==
    /\ pw_pc = "exit"
    /\ pw_return' = IF pw_exc THEN Raised ELSE Return(DictGet(pw_result, "json"))
    /\ pw_exc' = FALSE
    /\ pw_pc' = "ended"

\* a with block that does not stop the driver
PwExitNoStop ==
    /\ PwLeave
    /\ UNCHANGED <<cache, frames, clock, faults, DRY_RUN, index_prices,
                   index_metadata, utils_is_market_open_at, pc, now, rows,
                   metadata_to_upsert, session, pending, existing, idx, force,
                   orig, written, fault, path, cause, overlap, base, seen,
                   done, prev, gate_now, gate_tz, gate_open, parse_payload,
                   parse_result, fa_pc, fa_calls, fa_direct, fa_fallbacks,
                   fa_result, pw_driver, pw_browser, pw_launches, pw_result,
                   pw_responses, pw_elapsed, index_constituents, bm_pc,
                   bm_argv, bm_groups, bm_g, bm_payload, bm_log, mw_pc,
                   mw_args, mw_pending, mw_calls, SCRAPER_INSTANCE,
                   SCRAPER_READY, scrapers, lf_pc, lf_inst, lf_force, lf_orig,
                   lf_seconds, lf_last, lf_ret, lf_ops, lf_cycles>>

\* line 24: __exit__ of sync_playwright() stops the driver, which ends the
\* browsers it launched
PwExit ==
    /\ PwLeave
    /\ pw_driver' = FALSE
    /\ pw_browser' = FALSE
    /\ UNCHANGED <<cache, frames, clock, faults, DRY_RUN, index_prices,
                   index_metadata, utils_is_market_open_at, pc, now, rows,
                   metadata_to_upsert, session, pending, existing, idx, force,
                   orig, written, fault, path, cause, overlap, base, seen,
                   done, prev, gate_now, gate_tz, gate_open, parse_payload,
                   parse_result, fa_pc, fa_calls, fa_direct, fa_fallbacks,
                   fa_result, pw_launches, pw_result, pw_responses,
                   pw_elapsed, index_constituents, bm_pc, bm_argv, bm_groups,
                   bm_g, bm_payload, bm_log, mw_pc, mw_args, mw_pending,
                   mw_calls, SCRAPER_INSTANCE, SCRAPER_READY, scrapers, lf_pc,
                   lf_inst, lf_force, lf_orig, lf_seconds, lf_last, lf_ret,
                   lf_ops, lf_cycles>>

\* lines 35-45: the fallback returned or raised
FallbackDone ==
    /\ fa_pc = "fallback"
    /\ pw_pc = "ended"
    /\ fa_result' = IF pw_return.kind = "returned" /\ Truthy(pw_return.value)
                    THEN Return(pw_return.value)
                    ELSE Return(JNull)
    /\ fa_pc' = "done"
    /\ pw_pc' = "idle"
    /\ UNCHANGED <<cache, frames, clock, faults, DRY_RUN, index_prices,
                   index_metadata, utils_is_market_open_at, pc, now, rows,
                   metadata_to_upsert, session, pending, existing, idx, force,
                   orig, written, fault, path, cause, overlap, base, seen,
                   done, prev, gate_now, gate_tz, gate_open, parse_payload,
                   parse_result, fa_calls, fa_direct, fa_fallbacks, pw_driver,
                   pw_browser, pw_launches, pw_result, pw_responses,
                   pw_elapsed, pw_exc, pw_return, index_constituents, bm_pc,
                   bm_argv, bm_groups, bm_g, bm_payload, bm_log, mw_pc,
                   mw_args, mw_pending, mw_calls, SCRAPER_INSTANCE,
                   SCRAPER_READY, scrapers, lf_pc, lf_inst, lf_force, lf_orig,
                   lf_seconds, lf_last, lf_ret, lf_ops, lf_cycles>>

InitFetch ==
    /\ ScraperInit /\ ~DRY_RUN
    /\ GateUnset
    /\ ParserUnset
    /\ FetchIdle
    /\ BatchIdle
    /\ MetaIdle
    /\ LifeIdle

NextFetch ==
    \/ FetchAuto
    \/ \E outcome \in DirectOutcomes : HttpFetch(outcome)
    \/ \E ok \in BOOLEAN : PwStart(ok)
    \/ \E ok \in BOOLEAN : PwLaunch(ok)
    \/ \E ok \in BOOLEAN : PwNewPage(ok)
    \/ \E response \in Responses : HandleResponse(response)
    \/ \E ok \in BOOLEAN : PwGoto(ok)
    \/ PwPoll
    \/ \E ok \in BOOLEAN : PwClose(ok)
    \/ PwExit
    \/ FallbackDone

SpecFetch == InitFetch /\ [][NextFetch]_vars

\* the thread that polls keeps running: a sleep returns
FairSpecFetch == SpecFetch /\ WF_vars(PwPoll)

(***************************************************************************)
(* fetch_groups.main: the batch caller of fetch_group and save_group.      *)
(***************************************************************************)
MaxGroups == 2

GroupNames == {"VN30", "VNALL", "HNX30"}

\* the argument lists: up to MaxGroups group names
ArgLists == UNION {[1..n -> GroupNames] : n \in 0..MaxGroups}

\* line 16: groups = argv or ["VN30", "VNALL"]
GroupsOf(argv) == IF argv = <<>> THEN <<"VN30", "VNALL">> ELSE argv

\* lines 15-17: init_db() returns or raises
BatchMain(ok) ==
    /\ bm_pc = "idle"
    /\ bm_groups' = GroupsOf(bm_argv)
    /\ bm_g' = 1
    /\ bm_pc' = IF ok THEN "fetch" ELSE "raised"
    /\ UNCHANGED <<cache, frames, clock, faults, DRY_RUN, index_prices,
                   index_metadata, utils_is_market_open_at, pc, now, rows,
                   metadata_to_upsert, session, pending, existing, idx, force,
                   orig, written, fault, path, cause, overlap, base, seen,
                   done, prev, gate_now, gate_tz, gate_open, parse_payload,
                   parse_result, fa_pc, fa_calls, fa_direct, fa_fallbacks,
                   fa_result, pw_pc, pw_driver, pw_browser, pw_launches,
                   pw_result, pw_responses, pw_elapsed, pw_exc, pw_return,
                   index_constituents, bm_argv, bm_payload, bm_log, mw_pc,
                   mw_args, mw_pending, mw_calls, SCRAPER_INSTANCE,
                   SCRAPER_READY, scrapers, lf_pc, lf_inst, lf_force, lf_orig,
                   lf_seconds, lf_last, lf_ret, lf_ops, lf_cycles>>

\* line 18: the loop goes to the next group, or ends
NextGroup(g, n) == IF g < n THEN "fetch" ELSE "done"

\* an except clause that leaves the loop
ExceptBreaks(g, n) == "done"

\* lines 24-25: the error is logged and the loop goes on
Except(g, n) == NextGroup(g, n)

\* lines 18-21, 24-25: fetch_group(g) ends with outcome
BatchFetch(outcome) ==
    /\ bm_pc = "fetch"
    /\ bm_log' = Append(bm_log, [g |-> bm_groups[bm_g],
                                 fetch |-> outcome.kind, save |-> "none"])
    /\ IF outcome.kind = "ok"
       THEN /\ bm_payload' = outcome.body
            /\ bm_pc' = "save"
            /\ UNCHANGED bm_g
       ELSE /\ bm_pc' = Except(bm_g, Len(bm_groups))
            /\ bm_g' = bm_g + 1
            /\ UNCHANGED bm_payload
    /\ UNCHANGED <<cache, frames, clock, faults, DRY_RUN, index_prices,
                   index_metadata, utils_is_market_open_at, pc, now, rows,
                   metadata_to_upsert, session, pending, existing, idx, force,
                   orig, written, fault, path, cause, overlap, base, seen,
                   done, prev, gate_now, gate_tz, gate_open, parse_payload,
                   parse_result, fa_pc, fa_calls, fa_direct, fa_fallbacks,
                   fa_result, pw_pc, pw_driver, pw_browser, pw_launches,
                   pw_result, pw_responses, pw_elapsed, pw_exc, pw_return,
                   index_constituents, bm_argv, bm_groups, mw_pc, mw_args,
                   mw_pending, mw_calls, SCRAPER_INSTANCE, SCRAPER_READY,
                   scrapers, lf_pc, lf_inst, lf_force, lf_orig, lf_seconds,
                   lf_last, lf_ret, lf_ops, lf_cycles>>

\* save_group lines 38-41: the metadata row of a group that has none
GroupMetadata(group) ==
    IF \E r \in index_metadata : r.row.code = group THEN <<>>
    ELSE << [code |-> group, name |-> group, source |-> "iboard-query"] >>

\* save_group lines 48-51
ItemsOf(payload) ==
    LET items == PyOr(DictGet(payload, "data"), PyOr(DictGet(payload, "items"),
                     PyOr(DictGet(payload, "constituents"), JArr(<<>>))))
    IN IF items.t = "obj" THEN PyOr(DictGet(items, "items"), JArr(<<>>))
       ELSE items

\* save_group lines 54, 61-62
SymbolOf(it) == PyOr(DictGet(it, "symbol"), PyOr(DictGet(it, "code"), DictGet(it, "s")))

\* save_group lines 53-75: one row per item that has a symbol (the symbol
\* column; the other columns are copied from the item)
Constituents(group, payload) ==
    LET withSymbol == SelectSeq(ItemsOf(payload).items, LAMBDA it : Truthy(SymbolOf(it)))
    IN [k \in 1..Len(withSymbol) |->
           [index_code |-> group, symbol |-> StrOf(SymbolOf(withSymbol[k]))]]

\* how the storage calls of save_group end: all succeed; the session, the
\* query or the metadata commit raises an error that is not IntegrityError
\* (not caught by save_group); the last commit raises such an error (logged
\* at line 81)
SaveOutcomes == {"ok", "error", "commit_error"}

\* save_group raises: payload.get on a payload that is no dict (line 34),
\* or a storage error outside the last try
SaveRaises(payload, outcome) == payload.t # "obj" \/ outcome = "error"

\* lines 22-25: save_group(g, payload) ends with outcome
BatchSave(outcome) ==
    /\ bm_pc = "save"
    /\ LET group == bm_groups[bm_g] IN
       IF SaveRaises(bm_payload, outcome)
       THEN /\ bm_log' = [bm_log EXCEPT ![Len(bm_log)].save = "failed"]
            /\ bm_pc' = Except(bm_g, Len(bm_groups))
            /\ UNCHANGED <<index_metadata, index_constituents>>
       ELSE /\ bm_log' = [bm_log EXCEPT ![Len(bm_log)].save = outcome]
            /\ bm_pc' = NextGroup(bm_g, Len(bm_groups))
            /\ index_metadata' = InsertAll(index_metadata, GroupMetadata(group))
            /\ index_constituents' =
                  IF outcome = "ok"
                  THEN InsertAll(index_constituents, Constituents(group, bm_payload))
                  ELSE index_constituents
    /\ bm_g' = bm_g + 1
    /\ UNCHANGED <<cache, frames, clock, faults, DRY_RUN, index_prices,
                   utils_is_market_open_at, pc, now, rows, metadata_to_upsert,
                   session, pending, existing, idx, force, orig, written,
                   fault, path, cause, overlap, base, seen, done, prev,
                   gate_now, gate_tz, gate_open, parse_payload, parse_result,
                   fa_pc, fa_calls, fa_direct, fa_fallbacks, fa_result, pw_pc,
                   pw_driver, pw_browser, pw_launches, pw_result,
                   pw_responses, pw_elapsed, pw_exc, pw_return, bm_argv,
                   bm_groups, bm_payload, mw_pc, mw_args, mw_pending,
                   mw_calls, SCRAPER_INSTANCE, SCRAPER_READY, scrapers, lf_pc,
                   lf_inst, lf_force, lf_orig, lf_seconds, lf_last, lf_ret,
                   lf_ops, lf_cycles>>

InitBatch ==
    /\ ScraperInit /\ ~DRY_RUN
    /\ GateUnset
    /\ ParserUnset
    /\ FetchIdle
    /\ MetaIdle
    /\ LifeIdle
    /\ index_constituents = {}
    /\ bm_pc = "idle"
    /\ bm_argv \in ArgLists
    /\ bm_groups = <<>>
    /\ bm_g = 0
    /\ bm_payload = JNull
    /\ bm_log = <<>>

NextBatch ==
    \/ \E ok \in BOOLEAN : BatchMain(ok)
    \/ \E outcome \in DirectOutcomes : BatchFetch(outcome)
    \/ \E outcome \in SaveOutcomes : BatchSave(outcome)

SpecBatch == InitBatch /\ [][NextBatch]_vars

(***************************************************************************)
(* The writers of table index_metadata, each in its own thread or process: *)
(* the metadata section of a snapshot cycle, save_quotes and save_group.   *)
(* Each checks then inserts; the steps are the queries and the commits.    *)
(***************************************************************************)
MaxSaves == 3

\* the codes of a cache at the start of a cycle
CacheCodes == {<<"VN30">>, <<"VN30", "VNINDEX">>}
\* the symbols of the quotes handed to save_quotes: the list is not empty
\* (line 205)
QuoteLists == {<<"AAPL">>, <<"AAPL", "MSFT">>}
\* the group handed to save_group, any string of the command line
GroupArgs == {"VN30", "VN:VN30", "US:AAPL"}

\* save_quotes lines 211-215
QuoteMetadata(symbol) ==
    [code |-> "US:" \o symbol, name |-> symbol, source |-> "yahoo"]

\* the rows among ms that the table has no row for: the query of a
\* check-then-insert
Missing(ms) ==
    SelectSeq(ms, LAMBDA md : \A r \in index_metadata : r.row.code # md.code)

\* the commit of the added rows: all of them are inserted, or the unique
\* constraint on code rejects the transaction (IntegrityError)
Rejects(ms) ==
    \E k \in 1..Len(ms) : ~u_index_metadata_code(index_metadata, ms[k])

\* the call is over: its locals die
MwReturn(w) ==
    /\ mw_pc' = [mw_pc EXCEPT ![w] = "idle"]
    /\ mw_args' = [mw_args EXCEPT ![w] = <<>>]
    /\ mw_pending' = [mw_pending EXCEPT ![w] = <<>>]

\* _take_snapshot lines 128-132 of a cycle that found codes in the cache:
\* one query per code, session.add for those without a row
take_snapshot_query(codes) ==
    /\ mw_pc["snapshot"] = "idle" /\ mw_calls < MaxSaves
    /\ mw_calls' = mw_calls + 1
    /\ mw_args' = [mw_args EXCEPT !["snapshot"] = codes]
    /\ mw_pending' = [mw_pending EXCEPT !["snapshot"] =
          Missing([k \in 1..Len(codes) |-> MetadataOf([code |-> codes[k]])])]
    /\ mw_pc' = [mw_pc EXCEPT !["snapshot"] = "commit"]
    /\ UNCHANGED <<cache, frames, clock, faults, DRY_RUN, index_prices,
                   index_metadata, utils_is_market_open_at, pc, now, rows,
                   metadata_to_upsert, session, pending, existing, idx, force,
                   orig, written, fault, path, cause, overlap, base, seen,
                   done, prev, gate_now, gate_tz, gate_open, parse_payload,
                   parse_result, fa_pc, fa_calls, fa_direct, fa_fallbacks,
                   fa_result, pw_pc, pw_driver, pw_browser, pw_launches,
                   pw_result, pw_responses, pw_elapsed, pw_exc, pw_return,
                   index_constituents, bm_pc, bm_argv, bm_groups, bm_g,
                   bm_payload, bm_log, SCRAPER_INSTANCE, SCRAPER_READY,
                   scrapers, lf_pc, lf_inst, lf_force, lf_orig, lf_seconds,
                   lf_last, lf_ret, lf_ops, lf_cycles>>

\* _take_snapshot line 133, and lines 151-152 when the commit is rejected:
\* the transaction is rolled back and no metadata row is written again
take_snapshot_commit ==
    /\ mw_pc["snapshot"] = "commit"
    /\ index_metadata' = IF Rejects(mw_pending["snapshot"]) THEN index_metadata
                         ELSE InsertAll(index_metadata, mw_pending["snapshot"])
    /\ MwReturn("snapshot")
    /\ UNCHANGED <<cache, frames, clock, faults, DRY_RUN, index_prices,
                   utils_is_market_open_at, pc, now, rows, metadata_to_upsert,
                   session, pending, existing, idx, force, orig, written,
                   fault, path, cause, overlap, base, seen, done, prev,
                   gate_now, gate_tz, gate_open, parse_payload, parse_result,
                   fa_pc, fa_calls, fa_direct, fa_fallbacks, fa_result, pw_pc,
                   pw_driver, pw_browser, pw_launches, pw_result,
                   pw_responses, pw_elapsed, pw_exc, pw_return,
                   index_constituents, bm_pc, bm_argv, bm_groups, bm_g,
                   bm_payload, bm_log, mw_calls, SCRAPER_INSTANCE,
                   SCRAPER_READY, scrapers, lf_pc, lf_inst, lf_force, lf_orig,
                   lf_seconds, lf_last, lf_ret, lf_ops, lf_cycles>>

\* save_quotes lines 204-215: the call, and the query for the next quote;
\* a quote that has its row goes to the next one without a commit
save_quotes_query ==
    /\ \/ /\ mw_pc["quotes"] = "idle" /\ mw_calls < MaxSaves
          /\ mw_calls' = mw_calls + 1
          /\ \E quotes \in QuoteLists :
                mw_args' = [mw_args EXCEPT !["quotes"] = quotes]
       \/ /\ mw_pc["quotes"] = "query"
          /\ mw_args' = [mw_args EXCEPT !["quotes"] = Tail(@)]
          /\ UNCHANGED mw_calls
    /\ LET symbol == Head(mw_args'["quotes"])
           missing == Missing(<<QuoteMetadata(symbol)>>)
       IN /\ mw_pending' = [mw_pending EXCEPT !["quotes"] = missing]
          /\ mw_pc' = [mw_pc EXCEPT !["quotes"] =
                IF missing # <<>> THEN "commit"
                ELSE IF Len(mw_args'["quotes"]) > 1 THEN "query" ELSE "done"]
    /\ UNCHANGED <<cache, frames, clock, faults, DRY_RUN, index_prices,
                   index_metadata, utils_is_market_open_at, pc, now, rows,
                   metadata_to_upsert, session, pending, existing, idx, force,
                   orig, written, fault, path, cause, overlap, base, seen,
                   done, prev, gate_now, gate_tz, gate_open, parse_payload,
                   parse_result, fa_pc, fa_calls, fa_direct, fa_fallbacks,
                   fa_result, pw_pc, pw_driver, pw_browser, pw_launches,
                   pw_result, pw_responses, pw_elapsed, pw_exc, pw_return,
                   index_constituents, bm_pc, bm_argv, bm_groups, bm_g,
                   bm_payload, bm_log, SCRAPER_INSTANCE, SCRAPER_READY,
                   scrapers, lf_pc, lf_inst, lf_force, lf_orig, lf_seconds,
                   lf_last, lf_ret, lf_ops, lf_cycles>>

\* save_quotes line 216: the commit is in no try statement, a rejected
\* commit raises out of save_quotes
save_quotes_commit ==
    /\ mw_pc["quotes"] = "commit"
    /\ IF Rejects(mw_pending["quotes"])
       THEN /\ mw_pc' = [mw_pc EXCEPT !["quotes"] = "done"]
            /\ UNCHANGED index_metadata
       ELSE /\ index_metadata' = InsertAll(index_metadata, mw_pending["quotes"])
            /\ mw_pc' = [mw_pc EXCEPT !["quotes"] =
                  IF Len(mw_args["quotes"]) > 1 THEN "query" ELSE "done"]
    /\ mw_pending' = [mw_pending EXCEPT !["quotes"] = <<>>]
    /\ UNCHANGED <<cache, frames, clock, faults, DRY_RUN, index_prices,
                   utils_is_market_open_at, pc, now, rows, metadata_to_upsert,
                   session, pending, existing, idx, force, orig, written,
                   fault, path, cause, overlap, base, seen, done, prev,
                   gate_now, gate_tz, gate_open, parse_payload, parse_result,
                   fa_pc, fa_calls, fa_direct, fa_fallbacks, fa_result, pw_pc,
                   pw_driver, pw_browser, pw_launches, pw_result,
                   pw_responses, pw_elapsed, pw_exc, pw_return,
                   index_constituents, bm_pc, bm_argv, bm_groups, bm_g,
                   bm_payload, bm_log, mw_args, mw_calls, SCRAPER_INSTANCE,
                   SCRAPER_READY, scrapers, lf_pc, lf_inst, lf_force, lf_orig,
                   lf_seconds, lf_last, lf_ret, lf_ops, lf_cycles>>

\* save_quotes after the metadata of its last quote (lines 218-250 write
\* price rows only), or raising
save_quotes_return ==
    /\ mw_pc["quotes"] = "done"
    /\ MwReturn("quotes")
    /\ UNCHANGED <<cache, frames, clock, faults, DRY_RUN, index_prices,
                   index_metadata, utils_is_market_open_at, pc, now, rows,
                   metadata_to_upsert, session, pending, existing, idx, force,
                   orig, written, fault, path, cause, overlap, base, seen,
                   done, prev, gate_now, gate_tz, gate_open, parse_payload,
                   parse_result, fa_pc, fa_calls, fa_direct, fa_fallbacks,
                   fa_result, pw_pc, pw_driver, pw_browser, pw_launches,
                   pw_result, pw_responses, pw_elapsed, pw_exc, pw_return,
                   index_constituents, bm_pc, bm_argv, bm_groups, bm_g,
                   bm_payload, bm_log, mw_calls, SCRAPER_INSTANCE,
                   SCRAPER_READY, scrapers, lf_pc, lf_inst, lf_force, lf_orig,
                   lf_seconds, lf_last, lf_ret, lf_ops, lf_cycles>>

\* save_group lines 31-41: the query, and session.add when there is no row
save_group_query(group) ==
    /\ mw_pc["group"] = "idle" /\ mw_calls < MaxSaves
    /\ mw_calls' = mw_calls + 1
    /\ mw_args' = [mw_args EXCEPT !["group"] = <<group>>]
    /\ mw_pending' = [mw_pending EXCEPT !["group"] = GroupMetadata(group)]
    /\ mw_pc' = [mw_pc EXCEPT !["group"] = "commit"]
    /\ UNCHANGED <<cache, frames, clock, faults, DRY_RUN, index_prices,
                   index_metadata, utils_is_market_open_at, pc, now, rows,
                   metadata_to_upsert, session, pending, existing, idx, force,
                   orig, written, fault, path, cause, overlap, base, seen,
                   done, prev, gate_now, gate_tz, gate_open, parse_payload,
                   parse_result, fa_pc, fa_calls, fa_direct, fa_fallbacks,
                   fa_result, pw_pc, pw_driver, pw_browser, pw_launches,
                   pw_result, pw_responses, pw_elapsed, pw_exc, pw_return,
                   index_constituents, bm_pc, bm_argv, bm_groups, bm_g,
                   bm_payload, bm_log, SCRAPER_INSTANCE, SCRAPER_READY,
                   scrapers, lf_pc, lf_inst, lf_force, lf_orig, lf_seconds,
                   lf_last, lf_ret, lf_ops, lf_cycles>>

\* save_group lines 42-45: the commit, rolled back when it is rejected; the
\* rest of save_group writes constituents only
save_group_commit ==
    /\ mw_pc["group"] = "commit"
    /\ index_metadata' = IF Rejects(mw_pending["group"]) THEN index_metadata
                         ELSE InsertAll(index_metadata, mw_pending["group"])
    /\ MwReturn("group")
    /\ UNCHANGED <<cache, frames, clock, faults, DRY_RUN, index_prices,
                   utils_is_market_open_at, pc, now, rows, metadata_to_upsert,
                   session, pending, existing, idx, force, orig, written,
                   fault, path, cause, overlap, base, seen, done, prev,
                   gate_now, gate_tz, gate_open, parse_payload, parse_result,
                   fa_pc, fa_calls, fa_direct, fa_fallbacks, fa_result, pw_pc,
                   pw_driver, pw_browser, pw_launches, pw_result,
                   pw_responses, pw_elapsed, pw_exc, pw_return,
                   index_constituents, bm_pc, bm_argv, bm_groups, bm_g,
                   bm_payload, bm_log, mw_calls, SCRAPER_INSTANCE,
                   SCRAPER_READY, scrapers, lf_pc, lf_inst, lf_force, lf_orig,
                   lf_seconds, lf_last, lf_ret, lf_ops, lf_cycles>>

InitMeta ==
    /\ ScraperInit /\ ~DRY_RUN
    /\ GateUnset
    /\ ParserUnset
    /\ FetchIdle
    /\ BatchIdle
    /\ MetaIdle
    /\ LifeIdle

NextMeta ==
    \/ \E codes \in CacheCodes : take_snapshot_query(codes)
    \/ take_snapshot_commit
    \/ save_quotes_query
    \/ save_quotes_commit
    \/ save_quotes_return
    \/ \E group \in GroupArgs : save_group_query(group)
    \/ save_group_commit

SpecMeta == InitMeta /\ [][NextMeta]_vars

(***************************************************************************)
(* start_scraper, stop_scraper, set_snapshot_interval, the control         *)
(* endpoint that triggers a snapshot, and the scheduler's snapshot job.    *)
(* The endpoints are plain functions: the server runs each call in a       *)
(* thread of its pool, concurrently with the scheduler's threads.  A       *)
(* snapshot cycle is its call and its return here; its body is the         *)
(* subject of Spec.                                                        *)
(***************************************************************************)
MaxOps == 3
MaxInstances == 2

\* the values of seconds a client sends that the scheduler accepts
Intervals == {5, 30}

\* the arguments of set_snapshot_interval: those, and 0, which stands for an
\* argument the interval trigger cannot be built from (timedelta raises for
\* a value that is no number; a non-positive number is rejected or not
\* depending on the scheduler's version)
Seconds == Intervals \cup {0}

\* scheduler.add_job raises while it builds the trigger
trigger_rejects(seconds) == seconds \notin Intervals

\* seq without its first element of identifier id
RemoveFirst(seq, id) ==
    LET at == {k \in 1..Len(seq) : seq[k].id = id}
    IN IF at = {} THEN seq
       ELSE LET m == CHOOSE k \in at : \A l \in at : k <= l
            IN SubSeq(seq, 1, m - 1) \o SubSeq(seq, m + 1, Len(seq))

\* a set_snapshot_interval that does not cancel the timer
keeps_job(s, id) == s

\* scheduler.remove_job(id) on the scheduler of s: a running scheduler
\* removes the job from its store, a scheduler that is not running from its
\* pending jobs; JobLookupError is raised when there is none
remove_job(s, id) ==
    IF s.sched = "running" THEN [s EXCEPT !.jobs = {j \in @ : j.id # id}]
    ELSE [s EXCEPT !.pending = RemoveFirst(@, id)]

\* scheduler.add_job raises ConflictingIdError: a running scheduler adds the
\* job to its store, which has a job of that id
add_job_raises(s, job) ==
    s.sched = "running" /\ \E j \in s.jobs : j.id = job.id

\* scheduler.add_job: a scheduler that is not running keeps the job pending
\* until it is started
add_job(s, job) ==
    IF s.sched = "running" THEN [s EXCEPT !.jobs = @ \cup {job}]
    ELSE [s EXCEPT !.pending = Append(@, job)]

\* the pending jobs that scheduler.start() cannot add: their id is taken
Conflicting(s) ==
    {k \in 1..Len(s.pending) :
        \/ \E j \in s.jobs : j.id = s.pending[k].id
        \/ \E l \in 1..(k - 1) : s.pending[l].id = s.pending[k].id}

\* scheduler.start(): the pending jobs are added in order, then the
\* scheduler runs; ConflictingIdError of one of them leaves it not running
scheduler_start(s) ==
    IF Conflicting(s) = {}
    THEN [s EXCEPT !.sched = "running", !.pending = <<>>,
                   !.jobs = @ \cup {s.pending[k] : k \in 1..Len(s.pending)}]
    ELSE [s EXCEPT !.jobs = @ \cup {s.pending[k] : k \in
              {l \in 1..Len(s.pending) : \A c \in Conflicting(s) : l < c}}]

\* the thread t starts a call of its endpoint
Calls(t) ==
    /\ lf_pc[t] = "idle" /\ lf_ops < MaxOps
    /\ lf_ops' = lf_ops + 1
    /\ lf_last' = t

\* the thread t returns value
Returns(t, value) ==
    /\ lf_pc' = [lf_pc EXCEPT ![t] = "idle"]
    /\ lf_ret' = [lf_ret EXCEPT ![t] = Some(value)]

\* the threads that call start_scraper: the bootstrap thread (run, line 238)
\* and the thread of the control endpoint
Starters == {"boot", "start"}

\* start_scraper lines 206-207: the test of the global; with an instance
\* the call returns it (line 210)
start_scraper(t) ==
    /\ Calls(t)
    /\ IF SCRAPER_INSTANCE = 0
       THEN /\ lf_pc' = [lf_pc EXCEPT ![t] = "construct"]
            /\ UNCHANGED lf_ret
       ELSE Returns(t, SCRAPER_INSTANCE)
    /\ UNCHANGED <<cache, frames, clock, faults, DRY_RUN, index_prices,
                   index_metadata, utils_is_market_open_at, pc, now, rows,
                   metadata_to_upsert, session, pending, existing, idx, force,
                   orig, written, fault, path, cause, overlap, base, seen,
                   done, prev, gate_now, gate_tz, gate_open, parse_payload,
                   parse_result, fa_pc, fa_calls, fa_direct, fa_fallbacks,
                   fa_result, pw_pc, pw_driver, pw_browser, pw_launches,
                   pw_result, pw_responses, pw_elapsed, pw_exc, pw_return,
                   index_constituents, bm_pc, bm_argv, bm_groups, bm_g,
                   bm_payload, bm_log, mw_pc, mw_args, mw_pending, mw_calls,
                   SCRAPER_INSTANCE, SCRAPER_READY, scrapers, lf_inst,
                   lf_force, lf_orig, lf_seconds, lf_cycles>>

\* start_scraper line 208: a VNScraper is constructed, with an empty cache,
\* and assigned to the global
start_scraper_construct(t) ==
    /\ lf_pc[t] = "construct"
    /\ Len(scrapers) < MaxInstances
    /\ scrapers' = Append(scrapers, NewScraper)
    /\ SCRAPER_INSTANCE' = Len(scrapers) + 1
    /\ cache' = <<>>
    /\ lf_pc' = [lf_pc EXCEPT ![t] = "start"]
    /\ UNCHANGED <<frames, clock, faults, DRY_RUN, index_prices,
                   index_metadata, utils_is_market_open_at, pc, now, rows,
                   metadata_to_upsert, session, pending, existing, idx, force,
                   orig, written, fault, path, cause, overlap, base, seen,
                   done, prev, gate_now, gate_tz, gate_open, parse_payload,
                   parse_result, fa_pc, fa_calls, fa_direct, fa_fallbacks,
                   fa_result, pw_pc, pw_driver, pw_browser, pw_launches,
                   pw_result, pw_responses, pw_elapsed, pw_exc, pw_return,
                   index_constituents, bm_pc, bm_argv, bm_groups, bm_g,
                   bm_payload, bm_log, mw_pc, mw_args, mw_pending, mw_calls,
                   SCRAPER_READY, lf_inst, lf_force, lf_orig, lf_seconds,
                   lf_last, lf_ret, lf_ops, lf_cycles>>

\* start_scraper lines 209-210 and VNScraper.start lines 168-182, on the
\* instance the global refers to at that moment; ok is false when the
\* database, the browser or the navigation raises.  On a scheduler that
\* runs, add_job or scheduler.start() raises.
VNScraper_start(t, ok) ==
    /\ lf_pc[t] = "start"
    /\ IF SCRAPER_INSTANCE = 0 \/ ~ok
       THEN /\ lf_pc' = [lf_pc EXCEPT ![t] = "idle"]
            /\ UNCHANGED <<scrapers, SCRAPER_READY, lf_ret>>
       ELSE LET i == SCRAPER_INSTANCE
                s == [scrapers[i] EXCEPT !.page = TRUE]
                snapshot == Job("snapshot", SNAPSHOT_INTERVAL)
                added == add_job(add_job(s, snapshot),
                                 Job("analysis_news", 2 * 3600))
                started == scheduler_start(added)
            IN IF s.sched = "running"
               THEN /\ scrapers' = [scrapers EXCEPT ![i] =
                          IF add_job_raises(s, snapshot) THEN s
                          ELSE add_job(s, snapshot)]
                    /\ lf_pc' = [lf_pc EXCEPT ![t] = "idle"]
                    /\ UNCHANGED <<SCRAPER_READY, lf_ret>>
               ELSE /\ scrapers' = [scrapers EXCEPT ![i] = started]
                    /\ IF started.sched = "running"
                       THEN /\ SCRAPER_READY' = TRUE
                            /\ Returns(t, i)
                       ELSE /\ lf_pc' = [lf_pc EXCEPT ![t] = "idle"]
                            /\ UNCHANGED <<SCRAPER_READY, lf_ret>>
    /\ UNCHANGED <<cache, frames, clock, faults, DRY_RUN, index_prices,
                   index_metadata, utils_is_market_open_at, pc, now, rows,
                   metadata_to_upsert, session, pending, existing, idx, force,
                   orig, written, fault, path, cause, overlap, base, seen,
                   done, prev, gate_now, gate_tz, gate_open, parse_payload,
                   parse_result, fa_pc, fa_calls, fa_direct, fa_fallbacks,
                   fa_result, pw_pc, pw_driver, pw_browser, pw_launches,
                   pw_result, pw_responses, pw_elapsed, pw_exc, pw_return,
                   index_constituents, bm_pc, bm_argv, bm_groups, bm_g,
                   bm_payload, bm_log, mw_pc, mw_args, mw_pending, mw_calls,
                   SCRAPER_INSTANCE, lf_inst, lf_force, lf_orig, lf_seconds,
                   lf_last, lf_ops, lf_cycles>>

\* stop_scraper lines 214-216 and VNScraper.stop lines 185-188:
\* scheduler.shutdown(wait=False) does not wait for a running job; the
\* error of a scheduler that is not running is logged
stop_scraper ==
    /\ Calls("stop")
    /\ IF SCRAPER_INSTANCE = 0
       THEN /\ Returns("stop", 0)
            /\ UNCHANGED <<scrapers, lf_inst>>
       ELSE /\ scrapers' = [scrapers EXCEPT ![SCRAPER_INSTANCE] =
                  [@ EXCEPT !.stopped = TRUE,
                            !.sched = IF @ = "running" THEN "shutdown" ELSE @]]
            /\ lf_inst' = [lf_inst EXCEPT !["stop"] = SCRAPER_INSTANCE]
            /\ lf_pc' = [lf_pc EXCEPT !["stop"] = "browser"]
            /\ UNCHANGED lf_ret
    /\ UNCHANGED <<cache, frames, clock, faults, DRY_RUN, index_prices,
                   index_metadata, utils_is_market_open_at, pc, now, rows,
                   metadata_to_upsert, session, pending, existing, idx, force,
                   orig, written, fault, path, cause, overlap, base, seen,
                   done, prev, gate_now, gate_tz, gate_open, parse_payload,
                   parse_result, fa_pc, fa_calls, fa_direct, fa_fallbacks,
                   fa_result, pw_pc, pw_driver, pw_browser, pw_launches,
                   pw_result, pw_responses, pw_elapsed, pw_exc, pw_return,
                   index_constituents, bm_pc, bm_argv, bm_groups, bm_g,
                   bm_payload, bm_log, mw_pc, mw_args, mw_pending, mw_calls,
                   SCRAPER_INSTANCE, SCRAPER_READY, lf_force, lf_orig,
                   lf_seconds, lf_cycles>>

\* VNScraper.stop line 189: the browser is closed, no more frames
VNScraper_stop_browser ==
    /\ lf_pc["stop"] = "browser"
    /\ scrapers' = [scrapers EXCEPT ![lf_inst["stop"]].page = FALSE]
    /\ lf_pc' = [lf_pc EXCEPT !["stop"] = "clear"]
    /\ UNCHANGED <<cache, frames, clock, faults, DRY_RUN, index_prices,
                   index_metadata, utils_is_market_open_at, pc, now, rows,
                   metadata_to_upsert, session, pending, existing, idx, force,
                   orig, written, fault, path, cause, overlap, base, seen,
                   done, prev, gate_now, gate_tz, gate_open, parse_payload,
                   parse_result, fa_pc, fa_calls, fa_direct, fa_fallbacks,
                   fa_result, pw_pc, pw_driver, pw_browser, pw_launches,
                   pw_result, pw_responses, pw_elapsed, pw_exc, pw_return,
                   index_constituents, bm_pc, bm_argv, bm_groups, bm_g,
                   bm_payload, bm_log, mw_pc, mw_args, mw_pending, mw_calls,
                   SCRAPER_INSTANCE, SCRAPER_READY, lf_inst, lf_force,
                   lf_orig, lf_seconds, lf_last, lf_ret, lf_ops, lf_cycles>>

\* stop_scraper line 217
stop_scraper_clear ==
    /\ lf_pc["stop"] = "clear"
    /\ SCRAPER_INSTANCE' = 0
    /\ lf_inst' = [lf_inst EXCEPT !["stop"] = 0]
    /\ Returns("stop", 0)
    /\ UNCHANGED <<cache, frames, clock, faults, DRY_RUN, index_prices,
                   index_metadata, utils_is_market_open_at, pc, now, rows,
                   metadata_to_upsert, session, pending, existing, idx, force,
                   orig, written, fault, path, cause, overlap, base, seen,
                   done, prev, gate_now, gate_tz, gate_open, parse_payload,
                   parse_result, fa_pc, fa_calls, fa_direct, fa_fallbacks,
                   fa_result, pw_pc, pw_driver, pw_browser, pw_launches,
                   pw_result, pw_responses, pw_elapsed, pw_exc, pw_return,
                   index_constituents, bm_pc, bm_argv, bm_groups, bm_g,
                   bm_payload, bm_log, mw_pc, mw_args, mw_pending, mw_calls,
                   SCRAPER_READY, scrapers, lf_force, lf_orig, lf_seconds,
                   lf_last, lf_ops, lf_cycles>>

\* set_snapshot_interval lines 220-234: without an instance it returns
\* False; else the job 'snapshot' is removed, an error of the removal being
\* passed over, and added again with the new interval; an error of the
\* addition returns False
set_snapshot_interval(seconds) ==
    /\ Calls("interval")
    /\ lf_seconds' = seconds
    /\ IF SCRAPER_INSTANCE = 0
       THEN /\ Returns("interval", FALSE)
            /\ UNCHANGED scrapers
       ELSE LET removed == remove_job(scrapers[SCRAPER_INSTANCE], "snapshot")
                job == Job("snapshot", seconds)
            IN IF trigger_rejects(seconds) \/ add_job_raises(removed, job)
               THEN /\ scrapers' = [scrapers EXCEPT ![SCRAPER_INSTANCE] = removed]
                    /\ Returns("interval", FALSE)
               ELSE /\ scrapers' = [scrapers EXCEPT ![SCRAPER_INSTANCE] =
                                       add_job(removed, job)]
                    /\ Returns("interval", TRUE)
    /\ UNCHANGED <<cache, frames, clock, faults, DRY_RUN, index_prices,
                   index_metadata, utils_is_market_open_at, pc, now, rows,
                   metadata_to_upsert, session, pending, existing, idx, force,
                   orig, written, fault, path, cause, overlap, base, seen,
                   done, prev, gate_now, gate_tz, gate_open, parse_payload,
                   parse_result, fa_pc, fa_calls, fa_direct, fa_fallbacks,
                   fa_result, pw_pc, pw_driver, pw_browser, pw_launches,
                   pw_result, pw_responses, pw_elapsed, pw_exc, pw_return,
                   index_constituents, bm_pc, bm_argv, bm_groups, bm_g,
                   bm_payload, bm_log, mw_pc, mw_args, mw_pending, mw_calls,
                   SCRAPER_INSTANCE, SCRAPER_READY, lf_inst, lf_force,
                   lf_orig, lf_cycles>>

\* control_vn_snapshot(force) lines 204-206, in thread t: the instance is
\* read; without one the endpoint answers ok: False
control_vn_snapshot(t, f) ==
    /\ Calls(t)
    /\ IF SCRAPER_INSTANCE = 0
       THEN /\ Returns(t, FALSE)
            /\ UNCHANGED <<lf_inst, lf_force>>
       ELSE /\ lf_inst' = [lf_inst EXCEPT ![t] = SCRAPER_INSTANCE]
            /\ lf_force' = [lf_force EXCEPT ![t] = f]
            /\ lf_pc' = [lf_pc EXCEPT ![t] = "call"]
            /\ UNCHANGED lf_ret
    /\ UNCHANGED <<cache, frames, clock, faults, DRY_RUN, index_prices,
                   index_metadata, utils_is_market_open_at, pc, now, rows,
                   metadata_to_upsert, session, pending, existing, idx, force,
                   orig, written, fault, path, cause, overlap, base, seen,
                   done, prev, gate_now, gate_tz, gate_open, parse_payload,
                   parse_result, fa_pc, fa_calls, fa_direct, fa_fallbacks,
                   fa_result, pw_pc, pw_driver, pw_browser, pw_launches,
                   pw_result, pw_responses, pw_elapsed, pw_exc, pw_return,
                   index_constituents, bm_pc, bm_argv, bm_groups, bm_g,
                   bm_payload, bm_log, mw_pc, mw_args, mw_pending, mw_calls,
                   SCRAPER_INSTANCE, SCRAPER_READY, scrapers, lf_orig,
                   lf_seconds, lf_cycles>>

\* control_vn_snapshot lines 209-215 and 219: with force the attribute of
\* module utils is saved in orig and replaced by the lambda; then
\* inst._take_snapshot() is called
control_vn_snapshot_call(t) ==
    /\ lf_pc[t] = "call"
    /\ lf_cycles < MaxCycles
    /\ lf_cycles' = lf_cycles + 1
    /\ lf_pc' = [lf_pc EXCEPT ![t] = "cycle"]
    /\ IF lf_force[t]
       THEN /\ lf_orig' = [lf_orig EXCEPT ![t] = utils_is_market_open_at]
            /\ utils_is_market_open_at' = "lambda"
       ELSE UNCHANGED <<lf_orig, utils_is_market_open_at>>
    /\ UNCHANGED <<cache, frames, clock, faults, DRY_RUN, index_prices,
                   index_metadata, pc, now, rows, metadata_to_upsert, session,
                   pending, existing, idx, force, orig, written, fault, path,
                   cause, overlap, base, seen, done, prev, gate_now, gate_tz,
                   gate_open, parse_payload, parse_result, fa_pc, fa_calls,
                   fa_direct, fa_fallbacks, fa_result, pw_pc, pw_driver,
                   pw_browser, pw_launches, pw_result, pw_responses,
                   pw_elapsed, pw_exc, pw_return, index_constituents, bm_pc,
                   bm_argv, bm_groups, bm_g, bm_payload, bm_log, mw_pc,
                   mw_args, mw_pending, mw_calls, SCRAPER_INSTANCE,
                   SCRAPER_READY, scrapers, lf_inst, lf_force, lf_seconds,
                   lf_last, lf_ret, lf_ops>>

\* control_vn_snapshot after the cycle: the finally clause of lines 216-217
\* assigns orig back, whether the cycle returned (line 221) or raised (the
\* endpoint then returns no value)
control_vn_snapshot_return(t, raised) ==
    /\ lf_pc[t] = "cycle"
    /\ lf_inst' = [lf_inst EXCEPT ![t] = 0]
    /\ utils_is_market_open_at' =
           IF lf_force[t] THEN lf_orig[t] ELSE utils_is_market_open_at
    /\ lf_force' = [lf_force EXCEPT ![t] = FALSE]
    /\ lf_orig' = [lf_orig EXCEPT ![t] = "is_market_open_at"]
    /\ lf_pc' = [lf_pc EXCEPT ![t] = "idle"]
    /\ lf_ret' = [lf_ret EXCEPT ![t] = IF raised THEN None ELSE Some(TRUE)]
    /\ UNCHANGED <<cache, frames, clock, faults, DRY_RUN, index_prices,
                   index_metadata, pc, now, rows, metadata_to_upsert, session,
                   pending, existing, idx, force, orig, written, fault, path,
                   cause, overlap, base, seen, done, prev, gate_now, gate_tz,
                   gate_open, parse_payload, parse_result, fa_pc, fa_calls,
                   fa_direct, fa_fallbacks, fa_result, pw_pc, pw_driver,
                   pw_browser, pw_launches, pw_result, pw_responses,
                   pw_elapsed, pw_exc, pw_return, index_constituents, bm_pc,
                   bm_argv, bm_groups, bm_g, bm_payload, bm_log, mw_pc,
                   mw_args, mw_pending, mw_calls, SCRAPER_INSTANCE,
                   SCRAPER_READY, scrapers, lf_seconds, lf_last, lf_ops,
                   lf_cycles>>

\* the running scheduler of scraper i fires its job 'snapshot', of which no
\* run is in progress (max_instances is 1): _take_snapshot is called in a
\* thread of the scheduler's pool
snapshot_job_fire(i) ==
    /\ scrapers[i].sched = "running"
    /\ \E j \in scrapers[i].jobs : j.id = "snapshot"
    /\ scrapers[i].timer = "idle"
    /\ lf_cycles < MaxCycles
    /\ lf_cycles' = lf_cycles + 1
    /\ scrapers' = [scrapers EXCEPT ![i].timer = "running"]
    /\ UNCHANGED <<cache, frames, clock, faults, DRY_RUN, index_prices,
                   index_metadata, utils_is_market_open_at, pc, now, rows,
                   metadata_to_upsert, session, pending, existing, idx, force,
                   orig, written, fault, path, cause, overlap, base, seen,
                   done, prev, gate_now, gate_tz, gate_open, parse_payload,
                   parse_result, fa_pc, fa_calls, fa_direct, fa_fallbacks,
                   fa_result, pw_pc, pw_driver, pw_browser, pw_launches,
                   pw_result, pw_responses, pw_elapsed, pw_exc, pw_return,
                   index_constituents, bm_pc, bm_argv, bm_groups, bm_g,
                   bm_payload, bm_log, mw_pc, mw_args, mw_pending, mw_calls,
                   SCRAPER_INSTANCE, SCRAPER_READY, lf_pc, lf_inst, lf_force,
                   lf_orig, lf_seconds, lf_last, lf_ret, lf_ops>>

\* the run of the job returns
snapshot_job_done(i) ==
    /\ scrapers[i].timer = "running"
    /\ scrapers' = [scrapers EXCEPT ![i].timer = "idle"]
    /\ UNCHANGED <<cache, frames, clock, faults, DRY_RUN, index_prices,
                   index_metadata, utils_is_market_open_at, pc, now, rows,
                   metadata_to_upsert, session, pending, existing, idx, force,
                   orig, written, fault, path, cause, overlap, base, seen,
                   done, prev, gate_now, gate_tz, gate_open, parse_payload,
                   parse_result, fa_pc, fa_calls, fa_direct, fa_fallbacks,
                   fa_result, pw_pc, pw_driver, pw_browser, pw_launches,
                   pw_result, pw_responses, pw_elapsed, pw_exc, pw_return,
                   index_constituents, bm_pc, bm_argv, bm_groups, bm_g,
                   bm_payload, bm_log, mw_pc, mw_args, mw_pending, mw_calls,
                   SCRAPER_INSTANCE, SCRAPER_READY, lf_pc, lf_inst, lf_force,
                   lf_orig, lf_seconds, lf_last, lf_ret, lf_ops, lf_cycles>>

\* a frame of the page of the last scraper constructed, while it is open
LifeFrame(payload) ==
    /\ scrapers # <<>> /\ scrapers[Len(scrapers)].page
    /\ OnWsFrame(payload)

InitLife ==
    /\ ScraperInit /\ ~DRY_RUN
    /\ GateUnset
    /\ ParserUnset
    /\ FetchIdle
    /\ BatchIdle
    /\ MetaIdle
    /\ LifeIdle

NextLife ==
    \/ \E t \in Starters : start_scraper(t)
    \/ \E t \in Starters : start_scraper_construct(t)
    \/ \E t \in Starters, ok \in BOOLEAN : VNScraper_start(t, ok)
    \/ stop_scraper
    \/ VNScraper_stop_browser
    \/ stop_scraper_clear
    \/ \E seconds \in Seconds : set_snapshot_interval(seconds)
    \/ \E t \in Requests, f \in BOOLEAN : control_vn_snapshot(t, f)
    \/ \E t \in Requests : control_vn_snapshot_call(t)
    \/ \E t \in Requests, raised \in BOOLEAN : control_vn_snapshot_return(t, raised)
    \/ \E i \in 1..Len(scrapers) : snapshot_job_fire(i)
    \/ \E i \in 1..Len(scrapers) : snapshot_job_done(i)
    \/ \E payload \in Payloads \cup {PayloadMalformed} : LifeFrame(payload)

SpecLife == InitLife /\ [][NextLife]_vars
(***************************************************************************)
(* Properties.                                                             *)
(***************************************************************************)
\* the cycle of p has returned or raised
Finished(p) == pc[p] \in {"ret", "exc"}

\* the stored rows the running cycle of p inserted
WrittenRows(p) == {r \in index_prices : r.id \in written[p]}

\* rows without their timestamp
StripTs(rs) ==
    [k \in 1..Len(rs) |->
        [index_code |-> rs[k].index_code, source |-> rs[k].source,
         price |-> rs[k].price, change |-> rs[k].change,
         change_percent |-> rs[k].change_percent]]

\* C1: storage never holds two price rows with the same (indexCode,
\* timestamp) pair, whatever the interleaving of the cycles, their bulk
\* inserts and their row-by-row retries; an insert of a stored pair is
\* rejected and adds no row.
C1_UniquePairs ==
    \A r1, r2 \in index_prices :
        PairOf(r1.row) = PairOf(r2.row) => r1.id = r2.id

\* a cycle whose bulk insert was rejected has retried every row and each
\* of them was rejected, its pair being stored by the other cycle
C1_Witness ==
    \E p \in Procs :
        /\ pc[p] = "ret" /\ cause[p] = "bulk" /\ path[p] = "retry"
        /\ Len(rows[p]) > 0 /\ written[p] = {}
        /\ \A k \in 1..Len(rows[p]) : PairOf(rows[p][k]) \in StoredPairs

\* the cycle of p has returned, it started after the cycle recorded in prev
\* had finished and no cycle has finished since, both ran alone, found the
\* gate open with dry-run off and met no storage error, and both built
\* their rows from the same cache contents with no frame in between
BackToBack(p) ==
    /\ pc[p] = "ret" /\ prev.path = "bulk"
    /\ base[p] = done
    /\ ~overlap[p]
    /\ path[p] = "bulk"
    /\ fault[p] = "none"
    /\ seen[p] = prev.seen
    /\ StripTs(rows[p]) = StripTs(prev.rows)

\* C2 as stated: of two back-to-back cycles over the same cache contents,
\* the first inserts N rows and the second inserts none.
C2_SecondInsertsNothing ==
    \A p \in Procs :
        BackToBack(p) =>
            /\ prev.inserted = Len(prev.rows)
            /\ written[p] = {}

\* C2 amended: the first cycle inserts the rows whose pair its pre-query
\* did not find stored; the second inserts no row when it read the same
\* start instant as the first, and N rows when it read a later one.
C2_SecondInsertsPerInstant ==
    \A p \in Procs :
        BackToBack(p) =>
            /\ prev.inserted = Len(prev.rows) - prev.dups
            /\ now[p] = prev.now => written[p] = {}
            /\ now[p] # prev.now => Cardinality(written[p]) = Len(rows[p])

\* two back-to-back cycles read the same instant: N rows, then none
C2_Witness ==
    \E p \in Procs :
        /\ BackToBack(p) /\ now[p] = prev.now
        /\ Len(rows[p]) > 0 /\ prev.inserted = Len(rows[p]) /\ written[p] = {}

\* C3: a cycle writes price rows only if its start instant, expressed in
\* the market timezone, is on a weekday within 09:00-11:30 or 13:00-15:00.
C3_WritesOnlyWhenMarketOpen ==
    \A p \in Procs : written[p] # {} => MarketOpenAt(now[p])

\* C4: no persistence failure escapes a cycle: whichever storage step
\* fails, _take_snapshot returns normally.
C4_NoFailureEscapes ==
    \A p \in Procs : pc[p] # "exc"

\* C5: a cycle whose bulk insert failed with a uniqueness violation takes
\* the row-by-row path and, when no call fails with another error, ends by
\* returning with every row of the cycle stored: those it inserted itself
\* are rows of the cycle, the others were already stored and are discarded.
C5_RetryPersistsEveryNewRow ==
    \A p \in Procs :
        (Finished(p) /\ cause[p] = "bulk" /\ fault[p] = "none") =>
            /\ pc[p] = "ret" /\ path[p] = "retry"
            /\ \A k \in 1..Len(rows[p]) :
                  \E r \in index_prices :
                      /\ PairOf(r.row) = PairOf(rows[p][k])
                      /\ r.id \in written[p] => r.row = rows[p][k]
            /\ \A r \in WrittenRows(p) :
                  \E k \in 1..Len(rows[p]) : r.row = rows[p][k]

\* a retry after a rejected bulk insert has discarded a stored row and
\* persisted a new one
C5_Witness ==
    \E p \in Procs :
        /\ pc[p] = "ret" /\ cause[p] = "bulk" /\ fault[p] = "none"
        /\ written[p] # {}
        /\ Cardinality(written[p]) < Len(rows[p])

\* C6 as stated: a cycle one of whose storage calls failed with an error
\* that is not a uniqueness violation has not started the row-by-row retry
\* and has persisted none of its price rows.
C6_OtherErrorNoRetryNoRows ==
    \A p \in Procs :
        (Finished(p) /\ fault[p] # "none") =>
            path[p] # "retry" /\ written[p] = {}

\* the storage steps that come before the retry loop
BulkPathSteps == {"open", "meta_query", "meta_commit", "dedup", "bulk", "rollback"}

\* C6 amended: a cycle one of whose storage calls failed, before the
\* row-by-row retry had started, with an error that is not a uniqueness
\* violation has not started the retry and has persisted none of its
\* price rows.
C6_OtherErrorBeforeRetry ==
    \A p \in Procs :
        (Finished(p) /\ fault[p] \in BulkPathSteps) =>
            path[p] # "retry" /\ written[p] = {}

\* a bulk insert failed with another error: the cycle returned, no retry
C6_Witness ==
    \E p \in Procs :
        /\ pc[p] = "ret" /\ fault[p] = "bulk"
        /\ Len(rows[p]) > 0 /\ written[p] = {}

\* executor p takes a step of its cycle
Moved(p) == pc'[p] # pc[p] \/ idx'[p] # idx[p]

\* the paths of a cycle that skips: empty cache, closed gate, dry run
SkipPaths == {"empty", "closed", "dry"}

\* a step that writes a metadata row or a price row, or opens a session, is
\* a step of a cycle that found the cache non-empty and the gate open, with
\* dry-run off
C7_WriteNeedsOpenGate ==
    (\/ index_prices' # index_prices
     \/ index_metadata' # index_metadata
     \/ \E p \in Procs : session[p] = "closed" /\ session'[p] # "closed")
    => \E p \in Procs :
          /\ Moved(p)
          /\ rows[p] # <<>>
          /\ vn_scraper_is_market_open_at(utcnow(now[p]), MARKET_TZ)
          /\ ~DRY_RUN
          /\ path[p] \notin SkipPaths

\* a step of a cycle that skips leaves storage unchanged
C7_SkipLeavesStorage ==
    \A p \in Procs :
        (Moved(p) /\ (path[p] \in SkipPaths \/ path'[p] \in SkipPaths)) =>
            /\ index_prices' = index_prices
            /\ index_metadata' = index_metadata
            /\ session' = session

\* C7: a cycle performs a storage write (metadata row or price row) only if
\* the cache is non-empty, the gate reports open and dry-run is off; a cycle
\* that finds the cache empty, the gate closed or dry-run on leaves storage
\* unchanged, opens no session and has written no row.
C7_WritesOnlyWhenEnabled ==
    /\ [][C7_WriteNeedsOpenGate /\ C7_SkipLeavesStorage]_vars
    /\ [](\A p \in Procs :
            path[p] \in SkipPaths => session[p] = "closed" /\ written[p] = {})

\* a dry run has built its rows with the gate open and returned, storage
\* holding nothing
C7_Witness ==
    \E p \in Procs :
        /\ pc[p] = "ret" /\ path[p] = "dry" /\ DRY_RUN
        /\ Len(rows[p]) > 0
        /\ vn_scraper_is_market_open_at(utcnow(now[p]), MARKET_TZ)
        /\ index_prices = {} /\ index_metadata = {}

\* C8: every price row a cycle builds, and every price row it has written
\* on the bulk path or on the row-by-row retry path, carries the instant
\* the cycle read once at its start.
C8_OneTimestampPerCycle ==
    \A p \in Procs :
        /\ \A k \in 1..Len(rows[p]) : rows[p][k].timestamp = now[p]
        /\ \A r \in WrittenRows(p) : r.row.timestamp = now[p]

\* a cycle of two rows or more has written rows on the retry path, after
\* the clock has moved on since its start
C8_Witness ==
    \E p \in Procs :
        /\ pc[p] = "ret" /\ path[p] = "retry"
        /\ Len(rows[p]) >= 2 /\ written[p] # {}
        /\ clock # now[p]
        /\ \A r \in WrittenRows(p) : r.row.timestamp = now[p]

\* the records _on_ws_frame writes for a frame: none when _parse_payload
\* raised
Produced(payload) ==
    IF ParsedFrames[payload].raised THEN <<>> ELSE ParsedFrames[payload].found

RECURSIVE ProducedBy(_)
\* the records written for a sequence of frames, in processing order
ProducedBy(fs) ==
    IF fs = <<>> THEN <<>>
    ELSE ProducedBy(SubSeq(fs, 1, Len(fs) - 1)) \o Produced(fs[Len(fs)])

\* the last record of a code among records
LastOf(records, code) ==
    records[CHOOSE k \in 1..Len(records) :
                /\ records[k].code = code
                /\ \A j \in (k + 1)..Len(records) : records[j].code # code]

\* the cache holds, for each code a record was produced for, the last one
C9_HoldsLastRecord ==
    LET all == ProducedBy(frames)
    IN /\ \A k \in 1..Len(all) :
             /\ CacheHas(cache, all[k].code)
             /\ CacheGet(cache, all[k].code) = LastOf(all, all[k].code)
       /\ \A k \in 1..Len(cache) :
             /\ \E j \in 1..Len(all) : all[j].code = cache[k].code
             /\ \A j \in 1..Len(cache) : cache[j].code = cache[k].code => j = k

\* processing a frame leaves the entry of every code not in it unchanged
C9_OtherCodesUnchanged ==
    frames' # frames =>
        \A k \in 1..Len(cache) :
            (\A j \in 1..Len(Produced(frames'[Len(frames')])) :
                 Produced(frames'[Len(frames')])[j].code # cache[k].code)
            => /\ CacheHas(cache', cache[k].code)
               /\ CacheGet(cache', cache[k].code) = cache[k]

Built(p) == path[p] \in {"dry", "bulk", "retry"}

\* two drains of the same cache contents build the same rows but for the
\* timestamp: two running cycles, or a cycle and the last finished one
C10_SameRows ==
    /\ \A p, q \in Procs :
          (Built(p) /\ Built(q) /\ seen[p] = seen[q]) =>
              StripTs(rows[p]) = StripTs(rows[q])
    /\ \A p \in Procs :
          (Built(p) /\ prev.path \in {"dry", "bulk", "retry"}
                    /\ seen[p] = prev.seen) =>
              StripTs(rows[p]) = StripTs(prev.rows)

\* C10: a cycle only reads the cache: no step of a cycle changes the cache,
\* on any path, the cache changes only when a frame is processed, and two
\* drains with no frame between them build the same rows but for the
\* timestamp.
C10_CycleOnlyReadsCache ==
    /\ [][(cache' # cache => frames' # frames)
          /\ \A p \in Procs : Moved(p) => cache' = cache]_vars
    /\ []C10_SameRows

\* a cycle has drained the same cache contents as the last finished cycle
\* at a later instant: same rows but for the timestamp
C10_Witness ==
    \E p \in Procs :
        /\ pc[p] = "ret" /\ path[p] = "bulk" /\ prev.path = "bulk"
        /\ seen[p] = prev.seen /\ now[p] # prev.now
        /\ Len(rows[p]) > 0 /\ rows[p] # prev.rows
        /\ StripTs(rows[p]) = StripTs(prev.rows)

\* the records the cache held when the cycle of p read it
ReadRecords(p) == ProducedBy(SubSeq(frames, 1, seen[p]))

\* every row of a cycle takes all its fields from the one record that was
\* the cache entry of its code when the cycle read the cache, and the cycle
\* has one row per cached code
C11_RowsFromOneRecord ==
    \A p \in Procs :
        Built(p) =>
            LET all == ReadRecords(p)
            IN /\ \A k \in 1..Len(rows[p]) :
                     \E j \in 1..Len(all) :
                        /\ all[j] = LastOf(all, all[j].code)
                        /\ rows[p][k].index_code = "VN:" \o all[j].code
                        /\ rows[p][k].price = all[j].price
                        /\ rows[p][k].change = all[j].change
                        /\ rows[p][k].change_percent = all[j].change_percent
               /\ \A j \in 1..Len(all) :
                     \E k \in 1..Len(rows[p]) :
                        rows[p][k].index_code = "VN:" \o all[j].code
               /\ \A k, l \in 1..Len(rows[p]) :
                     rows[p][k].index_code = rows[p][l].index_code => k = l

\* C11: frames may be processed at any moment of a cycle; the read of the
\* cache never fails, and every row the cycle builds takes its fields from
\* one single record that was the cache entry of its code at the read,
\* whatever frames arrive before and after it.
C11_ReadIsConsistent ==
    /\ []C11_RowsFromOneRecord
    /\ [][\A p \in Procs :
            pc[p] = "build" => pc'[p] \in {"build", "ret", "meta_query"}]_vars

\* a frame replaced a cache entry after a running cycle read it: the row of
\* the cycle still carries the fields of the record it read
C11_Witness ==
    \E p \in Procs :
        /\ Built(p) /\ ~Finished(p) /\ seen[p] < Len(frames)
        /\ \E k \in 1..Len(rows[p]) :
              \E c \in 1..Len(cache) :
                 /\ rows[p][k].index_code = "VN:" \o cache[c].code
                 /\ rows[p][k].price # cache[c].price

\* the executor p is inside the body of _take_snapshot
InCycle(p) == pc[p] \notin {"idle", "ret", "exc"}

\* C12: at most one cycle is in progress at any time.
C12_NoOverlap == ~(InCycle("timer") /\ InCycle("api"))

\* weekday wd is Monday to Friday and time of day t (in minutes) is within
\* 09:00-11:30 or 13:00-15:00, endpoints included
InTradingWindows(wd, t) ==
    /\ wd \in 0..4
    /\ \/ (9 * 60 <= t /\ t <= 11 * 60 + 30)
       \/ (13 * 60 <= t /\ t <= 15 * 60)

\* the minute of the week of a datetime read on the wall clock of zone tz:
\* a naive datetime is already on that wall clock
ZoneLocalMinute(d, tz) ==
    IF d.aware
    THEN (d.wd * MinutesPerDay + d.min - d.off + tz) % MinutesPerWeek
    ELSE d.wd * MinutesPerDay + d.min

\* C18: is_market_open_at returns true exactly when the zone-local weekday
\* is Monday to Friday and the zone-local time of day is within 09:00-11:30
\* or 13:00-15:00, both endpoints included; so false on every Saturday and
\* Sunday, true at 09:30 and 14:00, false at 12:00 and 15:30 on a weekday.
C18_OpenExactlyInWindows ==
    gate_open # None =>
        LET m == ZoneLocalMinute(gate_now, gate_tz)
        IN gate_open = Some(InTradingWindows(m \div MinutesPerDay,
                                                m % MinutesPerDay))

\* a call returned true for a closing minute (11:30 or 15:00 in the zone)
\* given as an aware datetime of another zone
C18_Witness ==
    /\ gate_open = Some(TRUE)
    /\ gate_now.aware /\ gate_now.off # gate_tz
    /\ ZoneLocalMinute(gate_now, gate_tz) % MinutesPerDay
          \in {11 * 60 + 30, 15 * 60}

\* two aware datetimes denote the same absolute instant
SameInstant(a, b) ==
    (a.wd * MinutesPerDay + a.min - a.off) % MinutesPerWeek
        = (b.wd * MinutesPerDay + b.min - b.off) % MinutesPerWeek

\* C19: a naive datetime is taken as wall-clock time of the given zone, its
\* weekday and time of day used unchanged; an aware datetime is converted
\* to the zone, so every aware datetime that denotes the same absolute
\* instant in another zone gets the same answer.
C19_NaiveIsWallClockAwareIsConverted ==
    gate_open # None =>
        IF gate_now.aware
        THEN \A other \in GateAware :
                SameInstant(other, gate_now) =>
                    Some(is_market_open_at(other, gate_tz)) = gate_open
        ELSE gate_open = Some(InTradingWindows(gate_now.wd, gate_now.min))

\* the naive Monday 14:00 is open in Asia/Ho_Chi_Minh (21:00 in that zone
\* if it were taken as UTC)
C19_Witness ==
    /\ gate_now = Naive(0, 14 * 60)
    /\ gate_tz = MARKET_TZ
    /\ gate_open = Some(TRUE)

RECURSIVE MappingsOf(_)
\* the mappings a JSON value contains, at any depth of objects and arrays
MappingsOf(v) ==
    CASE v.t = "obj" ->
            {v} \cup UNION {MappingsOf(v.kv[i][2]) : i \in 1..Len(v.kv)}
      [] v.t = "arr" -> UNION {MappingsOf(v.items[i]) : i \in 1..Len(v.items)}
      [] OTHER -> {}

\* the list a finished call returned: nothing when it raised
Returned == IF parse_result[1].raised THEN <<>> ELSE parse_result[1].found

\* C20: for every valid JSON payload that contains, at any depth, a mapping
\* with a code under a recognized code alias and a number under a
\* recognized price alias, _parse_payload returns a record with that code
\* and that price.
C20_RecordForEveryMessage ==
    (parse_result # None /\ parse_payload.kind = "json") =>
        \A d \in MappingsOf(parse_payload.doc) :
            \A ck \in CodeAliases, pk \in PriceAliases :
                (/\ HasKey(d, ck) /\ DictGet(d, ck).t = "str"
                 /\ HasKey(d, pk) /\ DictGet(d, pk).t = "num") =>
                    \E k \in 1..Len(Returned) :
                        /\ Returned[k].code = DictGet(d, ck).s
                        /\ Returned[k].price = DictGet(d, pk).n

\* the direct path of the current call failed
DirectFailed == fa_direct.kind \in {"http", "transport", "badjson"}

\* C13: fetch_group_auto calls the browser fallback exactly once when the
\* direct path fails, by HTTP 403, by another HTTP error status or by a
\* transport-level error, and never when the direct path succeeds; on a
\* direct success it returns the direct payload and opens no browser
\* session.
C13_FallbackOnceOnDirectFailure ==
    /\ fa_fallbacks <= 1
    /\ DirectFailed => fa_fallbacks = 1
    /\ fa_direct.kind = "ok" =>
          /\ fa_fallbacks = 0
          /\ pw_launches = 0 /\ ~pw_driver /\ ~pw_browser
          /\ fa_pc = "done"
          /\ fa_result = Return(fa_direct.body)
    /\ fa_pc = "done" => (DirectFailed \/ fa_direct.kind = "ok")

\* a call whose direct path got HTTP 500 called the fallback once and
\* returned the body the fallback captured
C13_Witness ==
    /\ fa_pc = "done"
    /\ fa_direct.kind = "http" /\ fa_direct.status = 500
    /\ fa_fallbacks = 1 /\ pw_launches = 1
    /\ fa_result = Return(GroupBody)

\* the fallback of the current call ended having captured a body
FallbackCaptured ==
    /\ fa_fallbacks = 1
    /\ pw_return.kind = "returned"
    /\ HasKey(pw_result, "json")

\* C14: fetch_group_auto never raises: whatever the outcome of the direct
\* path and of the fallback it returns a payload or the no-payload value,
\* and it returns no-payload exactly when neither path produced a payload.
C14_NoPayloadIffNothingProduced ==
    fa_pc = "done" =>
        /\ fa_result.kind = "returned"
        /\ fa_result.value = JNull <=>
              ~(fa_direct.kind = "ok" \/ FallbackCaptured)

\* C15: no session opened by fetch_group_via_playwright is still open once
\* the call has returned or raised, whether the body was captured, the
\* poll timed out, the navigation failed or the interceptor failed; a
\* browser is open only while its driver runs.
C15_SessionReleasedOnEveryExit ==
    /\ pw_pc \in {"ended", "idle"} => (~pw_driver /\ ~pw_browser)
    /\ pw_browser => pw_driver

\* a call that launched a browser raised before reaching browser.close()
\* (new_context, new_page or page.goto failed) and left no session
C15_Witness ==
    /\ pw_pc = "ended"
    /\ pw_return = Raised
    /\ pw_launches = 1
    /\ ~pw_driver /\ ~pw_browser

\* C16: the polling loop always terminates: it sleeps only while nothing
\* is captured and the timeout has not elapsed, it is left once one of the
\* two holds, and a call whose loop timed out with nothing captured
\* returns the no-payload value and does not raise.
C16_PollingTerminates ==
    /\ [](pw_elapsed <= PollTimeout)
    /\ [][(pw_pc = "poll" /\ pw_elapsed' # pw_elapsed) =>
             (~HasKey(pw_result, "json") /\ pw_elapsed < PollTimeout)]_vars
    /\ []((pw_pc = "ended" /\ pw_elapsed = PollTimeout
             /\ ~HasKey(pw_result, "json")) => pw_return = Return(JNull))
    /\ (pw_pc = "poll") ~> (pw_pc = "close")

\* a call polled until the timeout with no body captured and returned the
\* no-payload value
C16_Witness ==
    /\ pw_pc = "ended"
    /\ pw_elapsed = PollTimeout
    /\ ~HasKey(pw_result, "json")
    /\ pw_return = Return(JNull)

\* the groups attempted so far are the first groups of the list, in order
AttemptedInOrder ==
    /\ Len(bm_log) <= Len(bm_groups)
    /\ \A k \in 1..Len(bm_log) : bm_log[k].g = bm_groups[k]

\* every group of the list was attempted exactly once, in list order
AllAttemptedOnce ==
    /\ Len(bm_log) = Len(bm_groups)
    /\ \A k \in 1..Len(bm_log) : bm_log[k].g = bm_groups[k]

\* a step inside the loop stays in the loop, or ends it after the last group
LoopGoesOn ==
    bm_pc \in {"fetch", "save"} =>
        /\ bm_pc' \in {"fetch", "save", "done"}
        /\ bm_pc' = "done" => bm_g' = Len(bm_groups) + 1

\* C17: fetch_groups.main attempts every group of its list exactly once and
\* in list order: a failure of the fetch or of the save of a group does not
\* end the loop, and the groups that follow are fetched and saved.
C17_SkipAndContinue ==
    /\ [](AttemptedInOrder /\ (bm_pc = "done" => AllAttemptedOnce))
    /\ [](\A k \in 1..Len(bm_log) :
             bm_log[k].save \in {"ok", "commit_error"} =>
                \E r \in index_metadata : r.row.code = bm_log[k].g)
    /\ [][LoopGoesOn]_vars

\* the fetch of the first group failed with an HTTP error, and the second
\* group was fetched and saved
C17_Witness ==
    /\ bm_pc = "done"
    /\ Len(bm_log) = 2
    /\ bm_log[1].fetch = "http"
    /\ bm_log[2].fetch = "ok" /\ bm_log[2].save = "ok"
    /\ \E r \in index_constituents : r.row.index_code = bm_log[2].g

\* the call of _parse_payload has ended
Parsed == parse_result # None

\* the aliases of each field, in declared order
CodeOrder == <<"code", "symbol", "indexCode">>
PriceOrder == <<"last", "lastPrice", "price">>
ChangeOrder == <<"change", "chg">>
PercentOrder == <<"percent", "percentChange", "chgPercent">>
TimeOrder == <<"time", "timestamp", "t">>

\* the value under the first alias of the order that the mapping has, JNull
\* when it has none
FirstPresent(d, order) ==
    IF \E i \in 1..Len(order) : HasKey(d, order[i])
    THEN DictGet(d, order[CHOOSE i \in 1..Len(order) :
                        /\ HasKey(d, order[i])
                        /\ \A j \in 1..(i - 1) : ~HasKey(d, order[j])])
    ELSE JNull

\* the mapping has an alias of the order
HasAlias(d, order) == \E i \in 1..Len(order) : HasKey(d, order[i])

\* the mapping has no recognized field
Unrecognized(d) ==
    \A order \in {CodeOrder, PriceOrder, ChangeOrder, PercentOrder, TimeOrder} :
        ~HasAlias(d, order)

\* C21: _parse_payload never fails its caller: for every payload it returns
\* a sequence and raises nothing, and for a payload with no recognized
\* field the sequence is empty.
C21_NeverRaises ==
    Parsed =>
        /\ ~parse_result[1].raised
        /\ (parse_payload.kind = "json"
              /\ \A d \in MappingsOf(parse_payload.doc) : Unrecognized(d))
             => parse_result[1].found = <<>>

\* the mapping has a code and a price that float() accepts, each under the
\* only alias of its field that the mapping has
ValidCodeAndPrice(d) ==
    /\ Cardinality({i \in 1..3 : HasKey(d, CodeOrder[i])}) = 1
    /\ Cardinality({i \in 1..3 : HasKey(d, PriceOrder[i])}) = 1
    /\ FirstPresent(d, CodeOrder).t = "str" /\ FirstPresent(d, CodeOrder).s # ""
    /\ Truthy(FirstPresent(d, PriceOrder)) /\ CanFloat(FirstPresent(d, PriceOrder))

\* the optional field of the order is present and float() rejects it
Uncoercible(d, order) ==
    /\ HasAlias(d, order)
    /\ Truthy(FirstPresent(d, order)) /\ ~CanFloat(FirstPresent(d, order))

\* the optional field as a record holds it: absent when the mapping has
\* none or when float() rejects it
BestEffort(d, order) ==
    IF ~HasAlias(d, order) \/ Uncoercible(d, order) THEN None
    ELSE Some(FloatOf(FirstPresent(d, order)))

\* the record of the mapping is among the returned ones
Yields(d) ==
    \E k \in 1..Len(Returned) :
        /\ Returned[k].code = FirstPresent(d, CodeOrder).s
        /\ Returned[k].price = FloatOf(FirstPresent(d, PriceOrder))
        /\ Returned[k].change = BestEffort(d, ChangeOrder)
        /\ Returned[k].change_percent = BestEffort(d, PercentOrder)

\* C22: a mapping yields a record only if it has a code alias and a price
\* alias and float() accepts the price; the optional fields are
\* best-effort: a mapping with a valid code and price whose change or
\* percent cannot be coerced still yields a record, with that field absent.
C22_OptionalFieldsBestEffort ==
    (Parsed /\ parse_payload.kind = "json") =>
        /\ \A k \in 1..Len(Returned) :
              \E d \in MappingsOf(parse_payload.doc) :
                 /\ HasAlias(d, CodeOrder) /\ HasAlias(d, PriceOrder)
                 /\ \E i \in 1..3 :
                       /\ HasKey(d, PriceOrder[i])
                       /\ CanFloat(DictGet(d, PriceOrder[i]))
                       /\ Returned[k].price = FloatOf(DictGet(d, PriceOrder[i]))
        /\ \A d \in MappingsOf(parse_payload.doc) :
              (/\ ValidCodeAndPrice(d)
               /\ Uncoercible(d, ChangeOrder) \/ Uncoercible(d, PercentOrder))
                  => Yields(d)

\* C23: a numeric coercion failure on one candidate skips only that
\* candidate: every candidate of the payload that has a code and a
\* coercible price and no field float() rejects is returned, whatever the
\* candidates before and after it are.
C23_FailureSkipsOneCandidate ==
    (Parsed /\ parse_payload.kind = "json") =>
        \A d \in MappingsOf(parse_payload.doc) :
            (/\ ValidCodeAndPrice(d)
             /\ ~Uncoercible(d, ChangeOrder) /\ ~Uncoercible(d, PercentOrder))
                => Yields(d)

\* C24: the value used for a field is the one under the first alias the
\* mapping has, in declared order, whatever that value is: when the call
\* returns, a mapping whose first code is a string and whose first price is
\* a number has a record with that code and that price.
C24_FirstPresentAliasWins ==
    (Parsed /\ parse_payload.kind = "json" /\ ~parse_result[1].raised) =>
        \A d \in MappingsOf(parse_payload.doc) :
            (/\ FirstPresent(d, CodeOrder).t = "str"
             /\ FirstPresent(d, CodeOrder).s # ""
             /\ FirstPresent(d, PriceOrder).t = "num") =>
                \E k \in 1..Len(Returned) :
                    /\ Returned[k].code = FirstPresent(d, CodeOrder).s
                    /\ Returned[k].price = FirstPresent(d, PriceOrder).n

\* C25: for a payload that is a JSON value wrapped in one layer of string
\* quoting, the call ends as it does for the unwrapped JSON value, with the
\* same records.
C25_UnwrapsOneLayer ==
    (Parsed /\ parse_payload.kind \in {"quoted", "encoded"}) =>
        parse_result[1] = _parse_payload(TextJson(parse_payload.doc))

\* C28: a cycle triggered by the control with force=true, which found the
\* cache non-empty, does not skip on the market-hours check: it never ends
\* on the path of the closed gate; a cycle triggered with force=false that
\* goes past the check found the gate open.
C28_ForceBypassesGate ==
    /\ (pc["api"] # "idle" /\ force) => path["api"] # "closed"
    /\ (pc["api"] \notin {"idle", "ret", "exc"} /\ ~force) =>
           vn_scraper_is_market_open_at(utcnow(now["api"]), MARKET_TZ)

\* C30: a cycle whose metadata commit was rejected for a code another writer
\* inserted in between, and none of whose calls failed with another error,
\* has returned normally once finished, and every (code, timestamp) pair of
\* its price rows is stored: the rows it inserted itself are rows of the
\* cycle, the other pairs were stored already.
C30_MetadataRaceSwallowed ==
    \A p \in Procs :
        (Finished(p) /\ cause[p] = "meta_commit" /\ fault[p] = "none") =>
            /\ pc[p] = "ret"
            /\ \A k \in 1..Len(rows[p]) :
                  \E r \in index_prices :
                      /\ PairOf(r.row) = PairOf(rows[p][k])
                      /\ r.id \in written[p] => r.row = rows[p][k]
            /\ \A r \in WrittenRows(p) :
                  \E k \in 1..Len(rows[p]) : r.row = rows[p][k]

\* a cycle has lost the race on a metadata row, returned, and persisted all
\* its price rows itself
C30_Witness ==
    \E p \in Procs :
        /\ pc[p] = "ret" /\ cause[p] = "meta_commit" /\ fault[p] = "none"
        /\ Len(rows[p]) > 1
        /\ Cardinality(written[p]) = Len(rows[p])

\* the stored metadata rows have pairwise distinct codes
OneRowPerCode ==
    \A r1, r2 \in index_metadata : r1.row.code = r2.row.code => r1 = r2

\* a step leaves every stored metadata row as it is
MetadataKept == \A r \in index_metadata : r \in index_metadata'

\* C29: however the metadata section of a snapshot cycle, save_quotes and
\* save_group interleave, table index_metadata holds at most one row per
\* code, and no step changes or removes a row that is stored: its name and
\* source stay those of its creation.
C29_OneRowPerCodeNeverModified ==
    []OneRowPerCode /\ [][MetadataKept]_vars

\* a writer finds its commit rejected because another writer has inserted
\* the code since its query, the row of the first of them being kept
C29_Witness ==
    \E w \in Writers :
        /\ mw_pc[w] = "commit"
        /\ Rejects(mw_pending[w])
        /\ \E r \in index_metadata :
              /\ r.row.code = mw_pending[w][1].code
              /\ r.row.source # mw_pending[w][1].source

\* the step is a call of set_snapshot_interval
IntervalCall == lf_ops' # lf_ops /\ lf_last' = "interval"

\* the jobs of identifier 'snapshot' the scheduler of s holds, registered or
\* pending
SnapshotJobs(s) ==
    {j \in s.jobs : j.id = "snapshot"}
    \cup {s.pending[k] : k \in {l \in 1..Len(s.pending) : s.pending[l].id = "snapshot"}}

\* what a call of set_snapshot_interval does
IntervalEffect ==
    /\ cache' = cache /\ frames' = frames
    /\ SCRAPER_INSTANCE' = SCRAPER_INSTANCE /\ SCRAPER_READY' = SCRAPER_READY
    /\ IF SCRAPER_INSTANCE = 0
       THEN lf_ret'["interval"] = Some(FALSE) /\ scrapers' = scrapers
       ELSE LET s == scrapers[SCRAPER_INSTANCE]
                t == scrapers'[SCRAPER_INSTANCE]
            IN (s.sched = "running" /\ ~trigger_rejects(lf_seconds')) =>
                  /\ lf_ret'["interval"] = Some(TRUE)
                  /\ SnapshotJobs(t) = {Job("snapshot", lf_seconds')}
                  /\ {j \in t.jobs : j.id # "snapshot"}
                        = {j \in s.jobs : j.id # "snapshot"}
                  /\ t.sched = "running" /\ t.page = s.page /\ t.timer = s.timer

\* C26: a call of set_snapshot_interval(seconds) leaves the cache as it is;
\* when the global holds a scraper whose scheduler runs, the call returns
\* True and that scheduler then holds exactly one job 'snapshot', of interval
\* seconds (seconds being an interval the scheduler accepts), its other jobs
\* being kept; when the global is None the call returns False and changes
\* nothing.
C26_IntervalReplacesTimerOnly == [][IntervalCall => IntervalEffect]_vars

\* the interval of a running scraper with a non-empty cache has been changed
C26_Witness ==
    /\ lf_last = "interval" /\ lf_ret["interval"] = Some(TRUE)
    /\ SCRAPER_INSTANCE # 0 /\ cache # <<>>
    /\ scrapers[SCRAPER_INSTANCE].sched = "running"
    /\ Job("snapshot", 30) \in scrapers[SCRAPER_INSTANCE].jobs

\* a snapshot cycle starts on scraper i: its job fires, or the control
\* endpoint calls _take_snapshot
CycleStarts(i) ==
    \/ scrapers[i].timer = "idle" /\ scrapers'[i].timer = "running"
    \/ \E t \in Requests :
          /\ lf_inst[t] = i
          /\ lf_pc[t] = "call" /\ lf_pc'[t] = "cycle"

\* a step of stop_scraper on scraper i
StopSteps(i) ==
    \/ scrapers'[i].stopped # scrapers[i].stopped
    \/ scrapers'[i].page # scrapers[i].page /\ scrapers[i].stopped
    \/ lf_pc["stop"] = "clear" /\ lf_pc'["stop"] = "idle" /\ SCRAPER_INSTANCE = i

C27_NoCycleAfterStop ==
    \A i \in 1..Len(scrapers) : scrapers[i].stopped => ~CycleStarts(i)

C27_RunningCycleGoesOn ==
    \A i \in 1..Len(scrapers) :
        StopSteps(i) => /\ scrapers'[i].timer = scrapers[i].timer
                        /\ \A t \in Requests : lf_pc'[t] = lf_pc[t]

\* C27: once stop has been called on a scraper, no snapshot cycle starts on
\* it, neither from its timer nor from the control endpoint; and no step of
\* the stop changes the state of a cycle that is running.
C27_GracefulShutdown ==
    [][C27_NoCycleAfterStop /\ C27_RunningCycleGoesOn]_vars

\* the frame cannot be normalized: it is no JSON text, or _parse_payload
\* raises on it
Unnormalizable(payload) ==
    \/ _parse_payload(payload).raised
    \/ ~json_loads(payload).ok /\ ~json_loads(strip_quotes(payload)).ok

\* a frame has been received in the step
FrameReceived == frames' # frames

\* C31: the step that receives a frame which cannot be normalized leaves
\* the cache exactly as it was, and the step that receives any other frame,
\* whatever frames came before it, writes every record normalized from it to
\* the cache; the handler has no other outcome (no error leaves it).
C31_BadFrameLeavesCache ==
    [][FrameReceived =>
         LET payload == frames'[Len(frames')]
         IN /\ frames' = Append(frames, payload)
            /\ IF Unnormalizable(payload) THEN cache' = cache
               ELSE cache' = PutAll(cache, _parse_payload(payload).found)]_vars

\* a frame has been written to the cache after one on which _parse_payload
\* raised
C31_Witness ==
    /\ Len(frames) = 2
    /\ _parse_payload(frames[1]).raised
    /\ ~Unnormalizable(frames[2])
    /\ cache # <<>>

\* the cycle of p found the cache non-empty and the gate open with dry-run
\* off, met no error of the storage, and has returned
RanToEnd(p) ==
    /\ pc[p] = "ret" /\ path[p] = "bulk"
    /\ fault[p] = "none" /\ cause[p] = "none"

\* the row is stored
Stored(row) == \E r \in index_prices : r.row = row

\* C32 as stated: at the end of such a cycle every row it built is present
\* in storage.
C32_EveryRowStored ==
    \A p \in Procs :
        RanToEnd(p) => \A k \in 1..Len(rows[p]) : Stored(rows[p][k])

\* the rows of the cycle of p are one row per code of the cache it read,
\* each with the prefixed code and the price, change and change percent of
\* the cached record of that code
OneRowPerCachedCode(p) ==
    LET all == ReadRecords(p)
    IN /\ \A k \in 1..Len(rows[p]) :
             \E j \in 1..Len(all) :
                /\ all[j] = LastOf(all, all[j].code)
                /\ rows[p][k] = RowOf(all[j], now[p])
       /\ \A j \in 1..Len(all) :
             \E k \in 1..Len(rows[p]) :
                rows[p][k].index_code = "VN:" \o all[j].code
       /\ \A k, l \in 1..Len(rows[p]) :
             rows[p][k].index_code = rows[p][l].index_code => k = l

\* C32, corrected: a cycle that ran with a non-empty cache, the gate open,
\* dry-run off and no error of the storage has exactly one row per code of
\* the cache it read, built from the cached record of the code, and at its
\* end the (code, timestamp) pair of every one of these rows is stored: by
\* the row itself when the cycle inserted it, by a row stored before when the
\* deduplication found the pair and discarded the row.
C32_RowsBuiltAndPairsStored ==
    \A p \in Procs :
        RanToEnd(p) =>
            /\ rows[p] # <<>>
            /\ OneRowPerCachedCode(p)
            /\ \A k \in 1..Len(rows[p]) :
                  \/ \E r \in WrittenRows(p) : r.row = rows[p][k]
                  \/ \E r \in index_prices :
                        /\ r.id \notin written[p]
                        /\ PairOf(r.row) = PairOf(rows[p][k])
            /\ \A r \in WrittenRows(p) :
                  \E k \in 1..Len(rows[p]) : r.row = rows[p][k]

\* a cycle has inserted one of its two rows and discarded the other, whose
\* pair was stored with another price
C32_Witness ==
    \E p \in Procs :
        /\ RanToEnd(p) /\ ~overlap[p]
        /\ Len(rows[p]) = 2 /\ Cardinality(written[p]) = 1
        /\ \E k \in 1..2 : ~Stored(rows[p][k])

\* C33: however many times a group has been saved with the same payload,
\* storage holds what one save leaves: one metadata row for the group and
\* one constituent row per symbol of the payload.
C33_SaveGroupIdempotent ==
    /\ \A r1, r2 \in index_metadata : r1.row.code = r2.row.code => r1 = r2
    /\ \A r1, r2 \in index_constituents :
          (r1.row.index_code = r2.row.index_code /\ r1.row.symbol = r2.row.symbol)
             => r1 = r2

\* C34: SCRAPER_READY is true only while the global refers to a scraper that
\* was started and not stopped: its scheduler runs; in particular it is
\* false once stop_scraper has returned.
C34_ReadyFollowsLifecycle ==
    SCRAPER_READY =>
        /\ SCRAPER_INSTANCE # 0
        /\ scrapers[SCRAPER_INSTANCE].sched = "running"
        /\ ~scrapers[SCRAPER_INSTANCE].stopped

\* C35: whatever the interleaving of the calls of start_scraper, at most one
\* VNScraper that has not been stopped exists, and a call that returns gives
\* the instance the global refers to.
C35_Singleton ==
    /\ Cardinality({i \in 1..Len(scrapers) : ~scrapers[i].stopped}) <= 1
    /\ \A t \in Starters :
          (lf_last = t /\ lf_pc[t] = "idle" /\ lf_ret[t] # None
              /\ SCRAPER_INSTANCE # 0)
             => lf_ret[t] = Some(SCRAPER_INSTANCE)

\* C36: a call of set_snapshot_interval that returns False on a scraper
\* whose scheduler runs leaves the job 'snapshot' that was registered
\* before the call registered, with its interval.
C36_FailedChangeKeepsTimer ==
    [][(/\ IntervalCall
        /\ SCRAPER_INSTANCE # 0
        /\ scrapers[SCRAPER_INSTANCE].sched = "running"
        /\ lf_ret'["interval"] = Some(FALSE))
       => /\ SnapshotJobs(scrapers'[SCRAPER_INSTANCE])
                = SnapshotJobs(scrapers[SCRAPER_INSTANCE])
          /\ SnapshotJobs(scrapers'[SCRAPER_INSTANCE]) # {}]_vars

\* C37: whenever no force=true request of control_vn_snapshot is between its
\* assignment of the lambda and its finally clause (every request has
\* completed, by return or by exception), the attribute is_market_open_at
\* of module utils is the original function.
C37_BypassNeverOutlivesRequests ==
    (\A t \in Requests : lf_pc[t] # "cycle")
        => utils_is_market_open_at = "is_market_open_at"

\* the code has a row in table index_metadata
HasMetadata(code) == \E m \in index_metadata : m.row.code = code

\* C38: at the end of a snapshot cycle every indexCode for which the cycle
\* persisted a price row has an IndexMetadata row in storage, the cycles
\* whose metadata commit raised IntegrityError included.
C38_PersistedCodesHaveMetadata ==
    \A p \in Procs :
        Finished(p) => \A r \in WrittenRows(p) : HasMetadata(r.row.index_code)

\* C39: a call of fetch_group_auto that took the fallback returns the body
\* the interceptor captured whenever it captured one, an empty object or
\* list included, and returns the no-payload value only when the fallback
\* captured nothing before the timeout or raised.
C39_CapturedBodyReturned ==
    (fa_pc = "done" /\ fa_fallbacks = 1) =>
        /\ FallbackCaptured => fa_result = Return(DictGet(pw_result, "json"))
        /\ fa_result = Return(JNull) => ~FallbackCaptured

\* the rows of the cycle of p whose pair is not in storage
MissingRows(p) ==
    {k \in 1..Len(rows[p]) : PairOf(rows[p][k]) \notin StoredPairs}

\* C40: in the row-by-row retry the failure of the insert of one row, by a
\* uniqueness violation or by another error, prevents no later row from
\* being persisted: at the end of a retry in which a single call failed
\* with another error, that call being the insert of a row, at most that
\* one row of the cycle has its pair missing from storage.
C40_RetryRowsIndependent ==
    \A p \in Procs :
        (/\ Finished(p) /\ path[p] = "retry"
         /\ fault[p] = "retry" /\ faults[p] = 1)
            => Cardinality(MissingRows(p)) <= 1

====
